---- MODULE Spec2Model ----
(***************************************************************************)
(* crate-report: the collection of per-file CodeStats and their            *)
(* aggregation into a Report, the diff of two Reports, the load of a       *)
(* baseline (src/src/main.rs, src/src/html.rs), and the candidate          *)
(* detectors (src/src/bool_candidates.rs, safe_candidates).                *)
(***************************************************************************)
EXTENDS Integers, Sequences, FiniteSets, TLC

VARIABLES
    pc,           \* position of the run
    report,       \* the Report built by generate_report
    old_report,   \* the Report reconstructed from the baseline rows
    diff_report,  \* the DiffReport of report.diff(&old_report)
    sum_items,    \* an iterator of CodeStats handed to Sum::sum
    sum_perm,     \* the same items in another order
    sum_a,        \* sum_items.sum()
    sum_b,        \* sum_perm.sum()
    item_fn,      \* the ItemFn handed to bool_candidates' visit_item_fn
    candidates,   \* bool_candidates::CodeStats.candidates
    lit_expr,     \* the Expr handed to is_zero_or_one_literal
    lit_result,   \* what is_zero_or_one_literal answered
    safe_fn,      \* the ItemFn handed to safe_candidates' visit_item_fn
    safe_found,   \* safe_candidates::CodeStats.candidates
    crate_files,  \* the .rs files under the crate root, by file identifier
    baseline_file, \* the baseline CSV file and the output format that loads it
    outcome,      \* how the load of the baseline ended
    file_reports, \* the results of the per-file tasks that have finished
    shown         \* what a consumer of the DiffReport wrote of the two totals

\* the variables of the literal test, the unsafe -> safe detector, the walk
\* of the crate, the load of a baseline and the display of a diff
others ==
    <<lit_expr, lit_result, safe_fn, safe_found, crate_files, baseline_file, outcome,
      file_reports, shown>>

vars ==
    <<pc, report, old_report, diff_report, sum_items, sum_perm, sum_a, sum_b,
      item_fn, candidates, others>>

----------------------------------------------------------------------------
(* Bounds *)

MaxFiles == 2     \* file identifiers are 1..MaxFiles, the lexicographic rank of the path
MaxWeight == 3    \* largest sum of all the counters of one report, or of one summed iterator
MaxLen == 3       \* longest iterator handed to Sum::sum directly
MaxNodes == 3     \* most expressions and let statements in one function body
MaxIfs == 2       \* most early-return ifs before the tail of a guarded function
MaxLit == 2       \* integer literals lie within MaxLit of 0 and of i32::MAX
MaxParams == 2    \* most parameters of a function handed to the unsafe -> safe detector
MaxStmts == 3     \* most statements written directly in one unsafe block of a collected file
MaxBlocks == 2    \* most unsafe blocks written directly in one function body of a collected file
MaxRows == 2      \* most rows of a baseline file
MaxLine == 2      \* source lines on which an item can start

----------------------------------------------------------------------------
\* Option::None
None == [kind |-> "None"]

(* struct CodeStats: seven isize counters *)

FieldNames ==
    {"static_mut_items", "total_fns", "total_lines", "total_statements",
     "unsafe_fns", "unsafe_statements", "unwraps"}

MkStats(sm, tf, tl, ts, uf, us, uw) ==
    [static_mut_items |-> sm, total_fns |-> tf, total_lines |-> tl,
     total_statements |-> ts, unsafe_fns |-> uf, unsafe_statements |-> us,
     unwraps |-> uw]

\* #[derive(Default)]
DefaultStats == MkStats(0, 0, 0, 0, 0, 0, 0)

\* the sum of the seven counters of s
Weight(s) ==
    s.static_mut_items + s.total_fns + s.total_lines + s.total_statements
        + s.unsafe_fns + s.unsafe_statements + s.unwraps

\* what analyze_file can return for a file: total_lines counts the lines of the
\* text, so it is at least 1 when anything was visited; an unsafe fn is a fn;
\* a statement directly inside an unsafe block is a statement
Collectable(s) ==
    /\ s.unsafe_fns <= s.total_fns
    /\ s.unsafe_statements <= s.total_statements
    /\ (Weight(s) > s.total_lines => s.total_lines >= 1)

\* the per-file records the runs draw from
StatsPool ==
    LET R == 0..MaxWeight
    IN  {s \in {MkStats(sm, tf, tl, ts, uf, us, uw) :
                    sm \in R, tf \in R, tl \in R, ts \in R, uf \in R, us \in R, uw \in R} :
            Weight(s) <= MaxWeight /\ Collectable(s)}

FileIds == 1..MaxFiles

\* the iterators of at most n records whose counters sum to at most w
RECURSIVE SeqsOver(_, _)
SeqsOver(n, w) ==
    IF n = 0 THEN {<<>>}
    ELSE {<<>>} \cup
         UNION {{<<s>> \o rest : rest \in SeqsOver(n - 1, w - Weight(s))} :
                    s \in {t \in StatsPool : Weight(t) <= w}}

\* the maps on the file identifiers D whose counters sum to at most w
RECURSIVE MapsOver(_, _)
MapsOver(D, w) ==
    IF D = {} THEN {<<>>}
    ELSE LET k == CHOOSE k \in D : TRUE
         IN  UNION {{[j \in D |-> IF j = k THEN s ELSE m[j]] :
                        m \in MapsOver(D \ {k}, w - Weight(s))} :
                    s \in {t \in StatsPool : Weight(t) <= w}}

\* BTreeMap<String, CodeStats>: a function on a set of file identifiers
FileMaps == UNION {MapsOver(D, MaxWeight) : D \in SUBSET FileIds}

----------------------------------------------------------------------------
(* impl Sum for CodeStats *)

\* a closure adding every field once
SumStep_once(acc, x) ==
    [static_mut_items  |-> acc.static_mut_items + x.static_mut_items,
     total_fns         |-> acc.total_fns + x.total_fns,
     total_lines       |-> acc.total_lines + x.total_lines,
     total_statements  |-> acc.total_statements + x.total_statements,
     unsafe_fns        |-> acc.unsafe_fns + x.unsafe_fns,
     unsafe_statements |-> acc.unsafe_statements + x.unsafe_statements,
     unwraps           |-> acc.unwraps + x.unwraps]

\* the closure handed to reduce
SumStep(acc, x) ==
    [static_mut_items  |-> (acc.static_mut_items + x.static_mut_items) + x.static_mut_items,
     total_fns         |-> acc.total_fns + x.total_fns,
     total_lines       |-> acc.total_lines + x.total_lines,
     total_statements  |-> acc.total_statements + x.total_statements,
     unsafe_fns        |-> acc.unsafe_fns + x.unsafe_fns,
     unsafe_statements |-> acc.unsafe_statements + x.unsafe_statements,
     unwraps           |-> acc.unwraps + x.unwraps]

RECURSIVE Reduce(_, _)
Reduce(acc, rest) ==
    IF rest = <<>> THEN acc ELSE Reduce(SumStep(acc, Head(rest)), Tail(rest))

\* iter.reduce(..).unwrap_or_default(): the first item is the accumulator
Sum(items) ==
    IF items = <<>> THEN DefaultStats ELSE Reduce(Head(items), Tail(items))

\* files.values(): the values in ascending key order
RECURSIVE Values(_)
Values(files) ==
    IF DOMAIN files = {} THEN <<>>
    ELSE LET k == CHOOSE k \in DOMAIN files : \A j \in DOMAIN files : k <= j
         IN  <<files[k]>> \o Values([j \in DOMAIN files \ {k} |-> files[j]])

\* Report { total: files.values().cloned().sum(), files }
MkReport(files) == [files |-> files, total |-> Sum(Values(files))]

----------------------------------------------------------------------------
(* Report::diff *)
\* should_report_change without its comparison of unwraps
should_report_change_no_unwraps(self, rhs) ==
    \/ self.unsafe_fns # rhs.unsafe_fns
    \/ self.unsafe_statements # rhs.unsafe_statements
    \/ self.static_mut_items # rhs.static_mut_items

\* should_report_change without its comparison of static_mut_items
should_report_change_no_static_mut(self, rhs) ==
    \/ self.unsafe_fns # rhs.unsafe_fns
    \/ self.unsafe_statements # rhs.unsafe_statements
    \/ self.unwraps # rhs.unwraps

\* should_report_change answering only for a counter that grew
should_report_change_if_grown(self, rhs) ==
    \/ self.unsafe_fns < rhs.unsafe_fns
    \/ self.unsafe_statements < rhs.unsafe_statements
    \/ self.static_mut_items < rhs.static_mut_items
    \/ self.unwraps < rhs.unwraps

\* CodeStats::should_report_change
should_report_change(self, rhs) ==
    \/ self.unsafe_fns # rhs.unsafe_fns
    \/ self.unsafe_statements # rhs.unsafe_statements
    \/ self.static_mut_items # rhs.static_mut_items
    \/ self.unwraps # rhs.unwraps

\* the match of Report::diff with the Added and Removed arms exchanged
DiffEntry_swapped(self, baseline, filename) ==
    LET inSelf == filename \in DOMAIN self.files
        inBase == filename \in DOMAIN baseline.files
    IN  IF inSelf /\ inBase
        THEN IF should_report_change(self.files[filename], baseline.files[filename])
             THEN [kind |-> "Changed", before |-> baseline.files[filename],
                   after |-> self.files[filename]]
             ELSE None
        ELSE IF inSelf THEN [kind |-> "Removed", stats |-> self.files[filename]]
        ELSE IF inBase THEN [kind |-> "Added", stats |-> baseline.files[filename]]
        ELSE None

\* the match of Report::diff without the should_report_change guard
DiffEntry_unguarded(self, baseline, filename) ==
    LET inSelf == filename \in DOMAIN self.files
        inBase == filename \in DOMAIN baseline.files
    IN  IF inSelf /\ inBase
        THEN [kind |-> "Changed", before |-> baseline.files[filename],
              after |-> self.files[filename]]
        ELSE IF inSelf THEN [kind |-> "Added", stats |-> self.files[filename]]
        ELSE IF inBase THEN [kind |-> "Removed", stats |-> baseline.files[filename]]
        ELSE None

\* the match of the flat_map closure, for one filename
DiffEntry(self, baseline, filename) ==
    LET inB == filename \in DOMAIN baseline.files
        inS == filename \in DOMAIN self.files
    IN  IF inB /\ inS /\ should_report_change(baseline.files[filename], self.files[filename])
        THEN [kind |-> "Changed", before |-> baseline.files[filename],
              after |-> self.files[filename]]
        ELSE IF ~inB /\ inS THEN [kind |-> "Added", stats |-> self.files[filename]]
        ELSE IF inB /\ ~inS THEN [kind |-> "Removed", stats |-> baseline.files[filename]]
        ELSE None

Diff(self, baseline) ==
    LET all_files == DOMAIN baseline.files \cup DOMAIN self.files
        kept == {f \in all_files : DiffEntry(self, baseline, f) # None}
    IN  [after_total  |-> self.total,
         before_total |-> baseline.total,
         changes      |-> [f \in kept |-> DiffEntry(self, baseline, f)]]

----------------------------------------------------------------------------
(* The run of main with a baseline: generate_report, then the baseline is  *)
(* loaded and diffed against.                                              *)

NoReport == [files |-> <<>>, total |-> DefaultStats]
NoDiff == [after_total |-> DefaultStats, before_total |-> DefaultStats, changes |-> <<>>]

\* the parts of the state a run does not touch
IdleOthers ==
    /\ lit_expr = None
    /\ lit_result = None
    /\ safe_fn = None
    /\ safe_found = <<>>
    /\ crate_files = <<>>
    /\ baseline_file = None
    /\ outcome = "none"
    /\ file_reports = <<>>
    /\ shown = None

Init ==
    /\ pc = "start"
    /\ report = NoReport
    /\ old_report = NoReport
    /\ diff_report = NoDiff
    /\ sum_items = <<>>
    /\ sum_perm = <<>>
    /\ sum_a = DefaultStats
    /\ sum_b = DefaultStats
    /\ item_fn = None
    /\ candidates = <<>>
    /\ IdleOthers

\* generate_report: every analysed file is collected into the map, then summed
GenerateReport ==
    /\ pc = "start"
    /\ \E files \in FileMaps : report' = MkReport(files)
    /\ pc' = "reported"
    /\ UNCHANGED <<old_report, diff_report, sum_items, sum_perm, sum_a, sum_b, item_fn, candidates, others>>

\* the baseline branch of the formatters: rows -> Report, then report.diff(&old_report)
DiffBaseline ==
    /\ pc = "reported"
    /\ \E files \in FileMaps :
          /\ old_report' = MkReport(files)
          /\ diff_report' = Diff(report, MkReport(files))
    /\ pc' = "diffed"
    /\ UNCHANGED <<report, sum_items, sum_perm, sum_a, sum_b, item_fn, candidates, others>>

Next == GenerateReport \/ DiffBaseline

Spec == Init /\ [][Next]_vars

----------------------------------------------------------------------------
(* Sum::sum applied to an iterator and to a permutation of it *)

Permuted(items, p) == [i \in 1..Len(items) |-> items[p[i]]]

InitSum ==
    /\ pc = "sum_start"
    /\ report = NoReport
    /\ old_report = NoReport
    /\ diff_report = NoDiff
    /\ sum_items \in SeqsOver(MaxLen, MaxWeight)
    /\ \E p \in Permutations(1..Len(sum_items)) : sum_perm = Permuted(sum_items, p)
    /\ sum_a = DefaultStats
    /\ sum_b = DefaultStats
    /\ item_fn = None
    /\ candidates = <<>>
    /\ IdleOthers

SumBoth ==
    /\ pc = "sum_start"
    /\ sum_a' = Sum(sum_items)
    /\ sum_b' = Sum(sum_perm)
    /\ pc' = "summed"
    /\ UNCHANGED <<report, old_report, diff_report, sum_items, sum_perm, item_fn, candidates, others>>

NextSum == SumBoth

SpecSum == InitSum /\ [][NextSum]_vars

----------------------------------------------------------------------------
(* bool_candidates.rs: the syntax tree, as far as the detector reads it *)

\* syn::Expr; the conditions of if / while and the scrutinee of match are
\* left out, the detector never reads them
\* the decimal digits of n, as LitInt::base10_digits gives them
RECURSIVE Digits(_)
Digits(n) == IF n < 10 THEN <<n>> ELSE Append(Digits(n \div 10), n % 10)

\* syn::Lit::Int with the given digits; Lit(n) is the literal written n
LitInt(digits) == [kind |-> "Lit", lit |-> "Int", digits |-> digits]
Lit(n) == LitInt(Digits(n))
\* syn::Lit::Bool, syn::Lit::Float, ...: value is 1 for true, 1.0, ...
LitOther(lit, v) == [kind |-> "Lit", lit |-> lit, value |-> v]
Call == [kind |-> "Call"]
Unary(op, e) == [kind |-> "Unary", op |-> op, expr |-> e]
Return(e) == [kind |-> "Return", expr |-> e]
BlockExpr(b) == [kind |-> "Block", block |-> b]
Unsafe(b) == [kind |-> "Unsafe", block |-> b]
\* loop / while / for: all three fall to the same arm of the detector
Loop(b) == [kind |-> "Loop", block |-> b]
If(t, e) == [kind |-> "If", then_branch |-> t, else_branch |-> e]
Match(arms) == [kind |-> "Match", arms |-> arms]

\* syn::Stmt; a syn::Block is the sequence of its stmts
ExprStmt(e, semi) == [kind |-> "Expr", expr |-> e, semi |-> semi]
Local == [kind |-> "Local"]

\* syn::ReturnType and syn::Type
TypePath(segments) == [kind |-> "Path", segments |-> segments]
TypeReference(elem) == [kind |-> "Reference", elem |-> elem]
ReturnsType(ty) == [kind |-> "Type", ty |-> ty]
ReturnsDefault == [kind |-> "Default"]

\* syn::ItemFn: line is the line on which the span of the item starts
ItemFn(ident, line, output, block) ==
    [ident |-> ident, line |-> line, output |-> output, block |-> block]

I32Max == 2147483647

\* i32::from_str on the digits from position i on: checked multiply and add,
\* an error when the value leaves i32
RECURSIVE ParseFrom(_, _, _)
ParseFrom(digits, i, acc) ==
    IF i > Len(digits) THEN [ok |-> TRUE, value |-> acc]
    ELSE IF acc > (I32Max - digits[i]) \div 10 THEN [ok |-> FALSE, value |-> 0]
    ELSE ParseFrom(digits, i + 1, acc * 10 + digits[i])

base10_parse(digits) == ParseFrom(digits, 1, 0)

\* LitInt::base10_parse::<i32>().unwrap_or(default)
base10_parse_or(digits, default) ==
    LET parsed == base10_parse(digits)
    IN  IF parsed.ok THEN parsed.value ELSE default

is_i32_type(ty) ==
    IF ty.kind = "Path"
    THEN IF Len(ty.segments) > 0 THEN ty.segments[Len(ty.segments)] = "i32" ELSE FALSE
    ELSE FALSE

I32Min == (0 - I32Max) - 1

\* -(value as i32) of is_zero_or_one_literal: TRUE when the negation leaves
\* i32 (a panic in a debug build, a wrapped value in a release build)
negation_overflows(expr) ==
    IF expr.kind = "Unary"
    THEN IF expr.op = "Neg" /\ expr.expr.kind = "Lit"
         THEN IF expr.expr.lit = "Int"
              THEN base10_parse_or(expr.expr.digits, 999) = I32Min
              ELSE FALSE
         ELSE FALSE
    ELSE FALSE

\* is_zero_or_one_literal comparing the literal under the minus sign, not
\* its negation
is_zero_or_one_literal_unsigned(expr) ==
    IF expr.kind = "Lit"
    THEN IF expr.lit = "Int"
         THEN LET value == base10_parse_or(expr.digits, -999)
              IN  value = 0 \/ value = 1
         ELSE FALSE
    ELSE IF expr.kind = "Unary"
    THEN IF expr.op = "Neg" /\ expr.expr.kind = "Lit"
         THEN IF expr.expr.lit = "Int"
              THEN LET value == base10_parse_or(expr.expr.digits, 999)
                   IN  value = 0 \/ value = 1
              ELSE FALSE
         ELSE FALSE
    ELSE FALSE

\* is_zero_or_one_literal accepting the literal 1 only
is_one_literal(expr) ==
    IF expr.kind = "Lit"
    THEN IF expr.lit = "Int" THEN base10_parse_or(expr.digits, -999) = 1 ELSE FALSE
    ELSE FALSE

is_zero_or_one_literal(expr) ==
    IF expr.kind = "Lit"
    THEN IF expr.lit = "Int"
         THEN LET value == base10_parse_or(expr.digits, -999)
              IN  value = 0 \/ value = 1
         ELSE FALSE
    ELSE IF expr.kind = "Unary"
    THEN IF expr.op = "Neg" /\ expr.expr.kind = "Lit"
         THEN IF expr.expr.lit = "Int"
              THEN LET value == base10_parse_or(expr.expr.digits, 999)
                       negative_value == 0 - value
                   IN  negative_value = 0 \/ negative_value = 1
              ELSE FALSE
         ELSE FALSE
    ELSE FALSE

RECURSIVE check_block_returns_only_zero_or_one(_)
RECURSIVE check_expr_returns_only_zero_or_one(_)
RECURSIVE StmtLoop(_, _, _)
RECURSIVE CheckArms(_, _)
\* is_valid_nested_expression without the matches! on the expression kind
is_valid_nested_expression_any(expr) == check_expr_returns_only_zero_or_one(expr)

is_valid_nested_expression(expr) ==
    IF expr.kind \in {"If", "Match", "Block", "Unsafe"}
    THEN check_expr_returns_only_zero_or_one(expr)
    ELSE FALSE

\* the for loop of check_block_returns_only_zero_or_one from statement i on:
\* early is "return false", has_returns the flag when the loop ends. The two
\* Stmt::Expr arms (with and without semicolon) have the same body.
StmtLoop(stmts, i, has_returns) ==
    IF i > Len(stmts) THEN [early |-> FALSE, has_returns |-> has_returns]
    ELSE LET stmt == stmts[i]
         IN  IF stmt.kind = "Expr"
             THEN IF stmt.expr.kind = "Return"
                  THEN IF stmt.expr.expr # None
                       THEN IF ~is_zero_or_one_literal(stmt.expr.expr)
                            THEN [early |-> TRUE, has_returns |-> TRUE]
                            ELSE IF ~check_expr_returns_only_zero_or_one(stmt.expr)
                                 THEN [early |-> TRUE, has_returns |-> TRUE]
                                 ELSE StmtLoop(stmts, i + 1, TRUE)
                       ELSE [early |-> TRUE, has_returns |-> TRUE]
                  ELSE IF ~check_expr_returns_only_zero_or_one(stmt.expr)
                       THEN [early |-> TRUE, has_returns |-> has_returns]
                       ELSE StmtLoop(stmts, i + 1, has_returns)
             ELSE StmtLoop(stmts, i + 1, has_returns)

\* the final expression of a block: Some(Stmt::Expr(expr, None)) = stmts.last()
HasFinalExpr(block) ==
    IF Len(block) > 0
    THEN block[Len(block)].kind = "Expr" /\ ~block[Len(block)].semi
    ELSE FALSE

\* check_block_returns_only_zero_or_one answering true, not has_returns, at its end
check_block_vacuous(block) ==
    LET loop == StmtLoop(block, 1, FALSE)
    IN  IF loop.early THEN FALSE
        ELSE IF HasFinalExpr(block)
        THEN LET expr == block[Len(block)].expr
             IN  IF ~is_zero_or_one_literal(expr) /\ ~is_valid_nested_expression(expr)
                 THEN FALSE
                 ELSE TRUE
        ELSE TRUE

check_block_returns_only_zero_or_one(block) ==
    LET loop == StmtLoop(block, 1, FALSE)
    IN  IF loop.early THEN FALSE
        ELSE IF HasFinalExpr(block)
        THEN LET expr == block[Len(block)].expr
             IN  IF ~is_zero_or_one_literal(expr) /\ ~is_valid_nested_expression(expr)
                 THEN FALSE
                 ELSE TRUE
        ELSE loop.has_returns

\* Expr::Return arm
CheckReturn(return_expr) ==
    IF return_expr.expr # None THEN is_zero_or_one_literal(return_expr.expr) ELSE FALSE
\* the Expr::If arm without the check of the else branch
CheckIf_then_only(if_expr) ==
    IF ~check_block_returns_only_zero_or_one(if_expr.then_branch) THEN FALSE ELSE TRUE

\* Expr::If arm
CheckIf(if_expr) ==
    IF ~check_block_returns_only_zero_or_one(if_expr.then_branch) THEN FALSE
    ELSE IF if_expr.else_branch # None
    THEN IF ~check_expr_returns_only_zero_or_one(if_expr.else_branch) THEN FALSE ELSE TRUE
    ELSE TRUE

\* the body of the for loop over the arms of Expr::Match: TRUE when the arm
\* makes the check return false
ArmFails(body) ==
    IF body.kind = "Block"
    THEN ~check_block_returns_only_zero_or_one(body.block)
    ELSE ~is_zero_or_one_literal(body) /\ ~check_expr_returns_only_zero_or_one(body)

CheckArms(arms, i) ==
    IF i > Len(arms) THEN TRUE
    ELSE IF ArmFails(arms[i]) THEN FALSE
    ELSE CheckArms(arms, i + 1)

\* Expr::Match arm
CheckMatch(match_expr) == CheckArms(match_expr.arms, 1)

\* check_expr_returns_only_zero_or_one looking at a return only, not into
\* blocks, ifs and matches
check_expr_return_only(expr) ==
    IF expr.kind = "Return" THEN CheckReturn(expr) ELSE TRUE

check_expr_returns_only_zero_or_one(expr) ==
    CASE expr.kind = "Return" -> CheckReturn(expr)
      [] expr.kind = "Block" -> check_block_returns_only_zero_or_one(expr.block)
      [] expr.kind = "Unsafe" -> check_block_returns_only_zero_or_one(expr.block)
      [] expr.kind = "If" -> CheckIf(expr)
      [] expr.kind = "Match" -> CheckMatch(expr)
      [] OTHER -> TRUE

\* struct BoolCandidate
BoolCandidate(fn_name, line_number) == [fn_name |-> fn_name, line_number |-> line_number]

\* what visit_item_fn leaves in stats.candidates
CandidatesAfterVisit(cands, i) ==
    IF i.output.kind = "Type"
    THEN IF is_i32_type(i.output.ty)
         THEN IF check_block_returns_only_zero_or_one(i.block)
              THEN Append(cands, BoolCandidate(i.ident, i.line))
              ELSE cands
         ELSE cands
    ELSE cands

----------------------------------------------------------------------------
(* The function bodies the detector is run on, by size: every expression   *)
(* and every let statement counts 1, a return with its value counts 1, an  *)
(* empty block counts 1. An expression without semicolon that is not       *)
(* block-like only parses as the last statement of a block.                *)

SimpleValues == {Lit(0), Lit(1), Lit(2), Unary("Neg", Lit(1)), Call}
SimpleReturns == {Return(None)} \cup {Return(v) : v \in SimpleValues}

MidSimple == {Local, ExprStmt(Call, TRUE)} \cup {ExprStmt(r, TRUE) : r \in SimpleReturns}
LastSimple ==
    MidSimple \cup {ExprStmt(e, FALSE) : e \in SimpleValues \cup SimpleReturns}

\* tab[k] holds the trees of size k, for k < n
ChildBlocks(tab, k) ==
    IF k = 0 THEN {} ELSE IF k = 1 THEN tab[1].blocks \cup {<<>>} ELSE tab[k].blocks

Elses(tab, k) ==
    IF k = 0 THEN {None} ELSE {BlockExpr(b) : b \in ChildBlocks(tab, k)} \cup tab[k].ifs

\* the ifs of size n whose then-block has size k or more
RECURSIVE IfsFrom(_, _, _)
IfsFrom(tab, n, k) ==
    IF k > n - 1 THEN {}
    ELSE {If(t, e) : t \in ChildBlocks(tab, k), e \in Elses(tab, n - 1 - k)}
            \cup IfsFrom(tab, n, k + 1)

\* the sequences of two or more arms of size n whose first arm has size k or more
RECURSIVE ArmSeqsFrom(_, _, _)
ArmSeqsFrom(tab, n, k) ==
    IF k > n - 1 THEN {}
    ELSE {<<a>> \o rest : a \in tab[k].arms, rest \in tab[n - k].armseqs}
            \cup ArmSeqsFrom(tab, n, k + 1)

\* the blocks of size n made of a prefix and one more statement of size k or more
RECURSIVE Extended(_, _, _, _, _)
Extended(tab, n, k, field, own) ==
    IF k > n THEN {}
    ELSE {Append(p, st) : p \in (IF n - k = 0 THEN {<<>>} ELSE tab[n - k].prefixes),
                          st \in (IF k = n THEN own ELSE tab[k][field])}
            \cup Extended(tab, n, k + 1, field, own)

\* the record of the trees of size n
Level(tab, n) ==
    LET ifs == IfsFrom(tab, n, 1)
        compound ==
            {BlockExpr(b) : b \in ChildBlocks(tab, n - 1)}
                \cup {Unsafe(b) : b \in ChildBlocks(tab, n - 1)}
                \cup {Loop(b) : b \in ChildBlocks(tab, n - 1)}
                \cup ifs
                \cup (IF n > 1 THEN {Match(arms) : arms \in tab[n - 1].armseqs} ELSE {})
        arms == (IF n = 1 THEN SimpleValues \cup SimpleReturns ELSE {}) \cup compound
        mid == (IF n = 1 THEN MidSimple ELSE {}) \cup {ExprStmt(c, FALSE) : c \in compound}
        last ==
            (IF n = 1 THEN LastSimple ELSE {})
                \cup {ExprStmt(c, semi) : c \in compound, semi \in BOOLEAN}
    IN  [ifs |-> ifs, arms |-> arms,
         armseqs |-> {<<a>> : a \in arms} \cup ArmSeqsFrom(tab, n, 1),
         mid |-> mid, last |-> last,
         prefixes |-> Extended(tab, n, 1, "mid", mid),
         blocks |-> Extended(tab, n, 1, "last", last)]

RECURSIVE Levels(_)
Levels(n) == IF n = 0 THEN <<>> ELSE LET tab == Levels(n - 1) IN Append(tab, Level(tab, n))

\* the trees of size less than MaxNodes
Table == Levels(MaxNodes - 1)

BlocksOf(k) == IF k = 0 THEN {<<>>} ELSE Table[k].blocks
PrefixesOf(k) == IF k = 0 THEN {<<>>} ELSE Table[k].prefixes

\* item_fn is a function whose body has size at most MaxNodes: a body of
\* size MaxNodes is a prefix and a last statement, or one statement that
\* nests the rest
DrawItemFn(ident, line, output) ==
    \/ \E n \in 0..(MaxNodes - 1) : \E b \in BlocksOf(n) :
          item_fn = ItemFn(ident, line, output, b)
    \/ \E k \in 1..(MaxNodes - 1) :
          \E p \in PrefixesOf(MaxNodes - k), st \in Table[k].last :
              item_fn = ItemFn(ident, line, output, Append(p, st))
    \/ \E semi \in BOOLEAN, b \in ChildBlocks(Table, MaxNodes - 1) :
          \E c \in {BlockExpr(b), Unsafe(b), Loop(b)} :
              item_fn = ItemFn(ident, line, output, <<ExprStmt(c, semi)>>)
    \/ \E semi \in BOOLEAN, k \in 1..(MaxNodes - 1) :
          \E t \in ChildBlocks(Table, k), e \in Elses(Table, MaxNodes - 1 - k) :
              item_fn = ItemFn(ident, line, output, <<ExprStmt(If(t, e), semi)>>)
    \/ \E semi \in BOOLEAN, arms \in Table[MaxNodes - 1].armseqs :
          item_fn = ItemFn(ident, line, output, <<ExprStmt(Match(arms), semi)>>)

FnNames == {"f", "g"}
I32 == ReturnsType(TypePath(<<"i32">>))
\* -> i32, -> bool, -> i64, -> core::primitive::i32, -> ffi::i32 (a type of
\* that name declared in a module ffi of the crate), -> &i32, and no arrow
Outputs ==
    {I32, ReturnsDefault,
     ReturnsType(TypePath(<<"bool">>)),
     ReturnsType(TypePath(<<"i64">>)),
     ReturnsType(TypePath(<<"core", "primitive", "i32">>)),
     ReturnsType(TypePath(<<"ffi", "i32">>)),
     ReturnsType(TypeReference(TypePath(<<"i32">>)))}

----------------------------------------------------------------------------
(* visit_item_fn on one function *)

InitBool ==
    /\ pc = "visit"
    /\ report = NoReport
    /\ old_report = NoReport
    /\ diff_report = NoDiff
    /\ sum_items = <<>>
    /\ sum_perm = <<>>
    /\ sum_a = DefaultStats
    /\ sum_b = DefaultStats
    /\ DrawItemFn("f", 1, I32)
    /\ candidates = <<>>
    /\ IdleOthers

visit_item_fn ==
    /\ pc = "visit"
    /\ candidates' = CandidatesAfterVisit(candidates, item_fn)
    /\ pc' = "visited"
    /\ UNCHANGED <<report, old_report, diff_report, sum_items, sum_perm, sum_a, sum_b, item_fn, others>>

NextBool == visit_item_fn

SpecBool == InitBool /\ [][NextBool]_vars

----------------------------------------------------------------------------
(* is_zero_or_one_literal on one expression *)

\* n zeros
RECURSIVE Zeros(_)
Zeros(n) == IF n = 0 THEN <<>> ELSE <<0>> \o Zeros(n - 1)

\* the digits of the literals near 0 (also written with leading zeros),
\* near i32::MAX from below, and above i32::MAX
LitDigits ==
    {Zeros(z) \o Digits(v) : z \in 0..MaxLit, v \in 0..MaxLit}
        \cup {Digits(I32Max - k) : k \in 0..MaxLit}
        \cup {Append(Digits(I32Max \div 10), d) : d \in 8..9}
        \cup {Digits(I32Max - k) \o Zeros(z) : k \in 0..MaxLit, z \in 1..MaxLit}

\* integer literals, true / false, 0.0 / 1.0, a call
LitAtoms ==
    {LitInt(ds) : ds \in LitDigits}
        \cup {LitOther(k, v) : k \in {"Bool", "Float"}, v \in {0, 1}}
        \cup {Call}

UnOps == {"Neg", "Not", "Deref"}

LitExprs ==
    LitAtoms
        \cup {Unary(op, a) : op \in UnOps, a \in LitAtoms}
        \cup {Unary(op, Unary(op2, a)) : op \in UnOps, op2 \in UnOps, a \in LitAtoms}

InitLit ==
    /\ pc = "test"
    /\ report = NoReport
    /\ old_report = NoReport
    /\ diff_report = NoDiff
    /\ sum_items = <<>>
    /\ sum_perm = <<>>
    /\ sum_a = DefaultStats
    /\ sum_b = DefaultStats
    /\ item_fn = None
    /\ candidates = <<>>
    /\ lit_expr \in LitExprs
    /\ lit_result = None
    /\ safe_fn = None
    /\ safe_found = <<>>
    /\ crate_files = <<>>
    /\ baseline_file = None
    /\ outcome = "none"
    /\ file_reports = <<>>
    /\ shown = None

TestLiteral ==
    /\ pc = "test"
    /\ lit_result' = [value |-> is_zero_or_one_literal(lit_expr),
                      overflow |-> negation_overflows(lit_expr)]
    /\ pc' = "tested"
    /\ UNCHANGED <<report, old_report, diff_report, sum_items, sum_perm, sum_a, sum_b,
                   item_fn, candidates, lit_expr, safe_fn, safe_found, crate_files,
                   baseline_file, outcome, file_reports, shown>>

NextLit == TestLiteral

SpecLit == InitLit /\ [][NextLit]_vars

----------------------------------------------------------------------------
(* safe_candidates: the unsafe -> safe detector on one function            *)

\* a raw pointer type, *const T or *mut T
TypePtr(elem) == [kind |-> "Ptr", elem |-> elem]

\* the function declaration the detector reads: name, line of declaration,
\* unsafe qualifier, the types of the declared parameters
SafeItemFn(ident, line, unsafety, inputs) ==
    [ident |-> ident, line |-> line, unsafety |-> unsafety, inputs |-> inputs]

\* the candidate record main prints (fn_name, line_number)
SafeCandidate(fn_name, line_number) == [fn_name |-> fn_name, line_number |-> line_number]

has_raw_pointer_param(inputs) == \E k \in 1..Len(inputs) : inputs[k].kind = "Ptr"

\* the heuristic with the parameters left out
detect_any_unsafe(i) == i.unsafety

\* the heuristic: declared unsafe and no declared parameter of raw pointer type
detect_safe_candidate(i) == i.unsafety /\ ~has_raw_pointer_param(i.inputs)

SafeFoundAfterVisit(found, i) ==
    IF detect_safe_candidate(i) THEN Append(found, SafeCandidate(i.ident, i.line)) ELSE found

\* i32, &u8, *mut u8, &*mut u8
ParamTypes ==
    {TypePath(<<"i32">>), TypeReference(TypePath(<<"u8">>)), TypePtr(TypePath(<<"u8">>)),
     TypeReference(TypePtr(TypePath(<<"u8">>)))}

RECURSIVE ParamLists(_)
ParamLists(n) ==
    IF n = 0 THEN {<<>>}
    ELSE {<<>>} \cup {<<t>> \o more : t \in ParamTypes, more \in ParamLists(n - 1)}

InitSafe ==
    /\ pc = "safe_visit"
    /\ report = NoReport
    /\ old_report = NoReport
    /\ diff_report = NoDiff
    /\ sum_items = <<>>
    /\ sum_perm = <<>>
    /\ sum_a = DefaultStats
    /\ sum_b = DefaultStats
    /\ item_fn = None
    /\ candidates = <<>>
    /\ lit_expr = None
    /\ lit_result = None
    /\ safe_fn \in {SafeItemFn(ident, line, u, inputs) :
                        ident \in FnNames, line \in 1..MaxLine, u \in BOOLEAN,
                        inputs \in ParamLists(MaxParams)}
    /\ safe_found = <<>>
    /\ crate_files = <<>>
    /\ baseline_file = None
    /\ outcome = "none"
    /\ file_reports = <<>>
    /\ shown = None

safe_visit_item_fn ==
    /\ pc = "safe_visit"
    /\ safe_found' = SafeFoundAfterVisit(safe_found, safe_fn)
    /\ pc' = "safe_visited"
    /\ UNCHANGED <<report, old_report, diff_report, sum_items, sum_perm, sum_a, sum_b,
                   item_fn, candidates, lit_expr, lit_result, safe_fn, crate_files,
                   baseline_file, outcome, file_reports, shown>>

NextSafe == safe_visit_item_fn

SpecSafe == InitSafe /\ [][NextSafe]_vars

----------------------------------------------------------------------------
(* The metrics collector: main.rs' CodeAnalyzer walking one parsed file    *)

\* receiver.method()
MethodCall(method, receiver) == [kind |-> "MethodCall", method |-> method, receiver |-> receiver]

\* syn::Item: fn and static items
CollectedFn(unsafety, block) == [kind |-> "Fn", unsafety |-> unsafety, block |-> block]
ItemStatic(mutability) == [kind |-> "Static", mutability |-> mutability]

\* what read_to_string and syn::parse_file make of a file: readable or not,
\* parsing or not, the number of lines, the items of the syntax tree
FileContent(readable, parses, lines, items) ==
    [readable |-> readable, parses |-> parses, lines |-> lines, items |-> items]

\* the counters of two visits, added: each visit only ever does += on stats
Plus(a, b) == [f \in FieldNames |-> a[f] + b[f]]

Count(field, n) == [DefaultStats EXCEPT ![field] = n]

RECURSIVE visit_block(_)
RECURSIVE visit_expr(_)
RECURSIVE visit_stmts(_, _)
RECURSIVE visit_arms(_, _)

\* visit_stmt counting only the statements that are not let statements
visit_stmt_no_local(i) ==
    IF i.kind = "Expr"
    THEN Plus(Count("total_statements", 1), visit_expr(i.expr))
    ELSE DefaultStats

\* CodeAnalyzer::visit_stmt
CodeAnalyzer_visit_stmt(i) ==
    Plus(Count("total_statements", 1),
         IF i.kind = "Expr" THEN visit_expr(i.expr) ELSE DefaultStats)

visit_stmts(stmts, k) ==
    IF k > Len(stmts) THEN DefaultStats
    ELSE Plus(CodeAnalyzer_visit_stmt(stmts[k]), visit_stmts(stmts, k + 1))

\* syn::visit::visit_block: every statement of the block
visit_block(block) == visit_stmts(block, 1)

\* visit_expr_unsafe without the walk into the block
visit_expr_unsafe_shallow(i) == Count("unsafe_statements", Len(i.block))

\* CodeAnalyzer::visit_expr_unsafe
CodeAnalyzer_visit_expr_unsafe(i) ==
    Plus(Count("unsafe_statements", Len(i.block)), visit_block(i.block))

\* CodeAnalyzer::visit_expr_method_call
CodeAnalyzer_visit_expr_method_call(i) ==
    Plus(Count("unwraps", IF i.method = "unwrap" THEN 1 ELSE 0), visit_expr(i.receiver))

visit_arms(arms, k) ==
    IF k > Len(arms) THEN DefaultStats
    ELSE Plus(visit_expr(arms[k]), visit_arms(arms, k + 1))

\* syn::visit::visit_expr: the walk into the sub-expressions
visit_expr(e) ==
    CASE e.kind = "Unsafe" -> CodeAnalyzer_visit_expr_unsafe(e)
      [] e.kind = "MethodCall" -> CodeAnalyzer_visit_expr_method_call(e)
      [] e.kind \in {"Block", "Loop"} -> visit_block(e.block)
      [] e.kind = "If" ->
            Plus(visit_block(e.then_branch),
                 IF e.else_branch = None THEN DefaultStats ELSE visit_expr(e.else_branch))
      [] e.kind = "Match" -> visit_arms(e.arms, 1)
      [] e.kind = "Return" -> (IF e.expr = None THEN DefaultStats ELSE visit_expr(e.expr))
      [] e.kind = "Unary" -> visit_expr(e.expr)
      [] OTHER -> DefaultStats

\* visit_item_fn counting a function as unsafe or else in total_fns
visit_item_fn_either(i) ==
    Plus(IF i.unsafety THEN Count("unsafe_fns", 1) ELSE Count("total_fns", 1),
         visit_block(i.block))

\* CodeAnalyzer::visit_item_fn
CodeAnalyzer_visit_item_fn(i) ==
    Plus(Plus(Count("total_fns", 1), Count("unsafe_fns", IF i.unsafety THEN 1 ELSE 0)),
         visit_block(i.block))

\* CodeAnalyzer::visit_item_static
CodeAnalyzer_visit_item_static(i) == Count("static_mut_items", IF i.mutability THEN 1 ELSE 0)

\* visitor.visit_file: every item of the file
RECURSIVE visit_file(_, _)
visit_file(items, k) ==
    IF k > Len(items) THEN DefaultStats
    ELSE Plus(IF items[k].kind = "Fn" THEN CodeAnalyzer_visit_item_fn(items[k])
              ELSE CodeAnalyzer_visit_item_static(items[k]),
              visit_file(items, k + 1))

\* analyze_file answering default counters for a file it cannot read or parse
analyze_file_default(content) ==
    IF ~content.readable THEN DefaultStats
    ELSE IF ~content.parses THEN DefaultStats
    ELSE Plus(Count("total_lines", content.lines), visit_file(content.items, 1))

\* analyze_file: None when the file cannot be read or does not parse
analyze_file(content) ==
    IF ~content.readable THEN None
    ELSE IF ~content.parses THEN None
    ELSE Plus(Count("total_lines", content.lines), visit_file(content.items, 1))

\* generate_report on the files found: flat_map(analyze_path) drops the
\* files analyze_file gives None for, the rest is collected and summed
generate_report(found) ==
    LET analyzed == [f \in DOMAIN found |-> analyze_file(found[f])]
        kept == {f \in DOMAIN found : analyzed[f] # None}
    IN  MkReport([f \in kept |-> analyzed[f]])

----------------------------------------------------------------------------
(* generate_report on a crate: either one file whose function holds unsafe *)
(* blocks, the first possibly with a nested one, or several short files,   *)
(* some of which cannot be read or parsed                                  *)

\* n let statements
RECURSIVE Locals(_)
Locals(n) == IF n = 0 THEN <<>> ELSE <<Local>> \o Locals(n - 1)

\* unsafe { ... } as a statement
UnsafeStmt(b) == ExprStmt(Unsafe(b), FALSE)

\* x.unwrap(); and x.len();
UnwrapStmt == ExprStmt(MethodCall("unwrap", Call), TRUE)
LenStmt == ExprStmt(MethodCall("len", Call), TRUE)

\* the unsafe blocks of at most MaxStmts statements: let statements, then
\* possibly one nested unsafe block of let statements
UnsafeShapes ==
    {Locals(n) : n \in 0..MaxStmts}
        \cup {Append(Locals(n), UnsafeStmt(Locals(m))) : n \in 0..(MaxStmts - 1), m \in 0..MaxStmts}

\* the bodies of at most n unsafe blocks of let statements
RECURSIVE PlainBodies(_)
PlainBodies(n) ==
    IF n = 0 THEN {<<>>}
    ELSE {<<>>} \cup {<<UnsafeStmt(Locals(k))>> \o more :
                        k \in 0..MaxStmts, more \in PlainBodies(n - 1)}

\* the bodies of at most n unsafe blocks, the first of any shape
UnsafeBodies(n) ==
    {<<>>} \cup {<<UnsafeStmt(b)>> \o more : b \in UnsafeShapes, more \in PlainBodies(n - 1)}

MoreItems ==
    {<<>>, <<ItemStatic(TRUE)>>, <<ItemStatic(FALSE)>>,
     <<CollectedFn(TRUE, <<UnwrapStmt>>)>>, <<CollectedFn(FALSE, <<LenStmt>>)>>}

RichFiles ==
    {FileContent(TRUE, TRUE, MaxLine, <<CollectedFn(u, body)>> \o more) :
        u \in BOOLEAN, body \in UnsafeBodies(MaxBlocks), more \in MoreItems}

Unreadable == FileContent(FALSE, FALSE, 0, <<>>)
Unparseable == FileContent(TRUE, FALSE, 1, <<>>)

ShortItems ==
    {<<>>, <<ItemStatic(TRUE)>>, <<CollectedFn(TRUE, <<UnsafeStmt(<<Local>>)>>)>>,
     <<CollectedFn(FALSE, <<UnwrapStmt>>)>>}

ShortFiles ==
    {Unreadable, Unparseable, FileContent(TRUE, TRUE, 0, <<>>)}
        \cup {FileContent(TRUE, TRUE, l, items) : l \in 1..MaxLine, items \in ShortItems}

InitCollect ==
    /\ pc = "walk"
    /\ report = NoReport
    /\ old_report = NoReport
    /\ diff_report = NoDiff
    /\ sum_items = <<>>
    /\ sum_perm = <<>>
    /\ sum_a = DefaultStats
    /\ sum_b = DefaultStats
    /\ item_fn = None
    /\ candidates = <<>>
    /\ lit_expr = None
    /\ lit_result = None
    /\ safe_fn = None
    /\ safe_found = <<>>
    /\ \/ \E c \in RichFiles : crate_files = [f \in {1} |-> c]
       \/ \E D \in SUBSET FileIds : crate_files \in [D -> ShortFiles]
    /\ baseline_file = None
    /\ outcome = "none"
    /\ file_reports = <<>>
    /\ shown = None

\* main without --baseline: generate_report on the crate root
WalkCrate ==
    /\ pc = "walk"
    /\ report' = generate_report(crate_files)
    /\ pc' = "walked"
    /\ UNCHANGED <<old_report, diff_report, sum_items, sum_perm, sum_a, sum_b,
                   item_fn, candidates, others>>

NextCollect == WalkCrate

SpecCollect == InitCollect /\ [][NextCollect]_vars

----------------------------------------------------------------------------
(* The baseline: a CSV file of a header and rows, a field being the        *)
(* sequence of its characters                                              *)

DigitChars == <<"0", "1", "2", "3", "4", "5", "6", "7", "8", "9">>
IsDigitChar(c) == \E d \in 1..Len(DigitChars) : DigitChars[d] = c
DigitValue(c) == (CHOOSE d \in 1..Len(DigitChars) : DigitChars[d] = c) - 1

ParseErr == [ok |-> FALSE, value |-> 0]

\* the digit loop of isize::from_str, from position i on
RECURSIVE ParseDigits(_, _, _)
ParseDigits(text, i, acc) ==
    IF i > Len(text) THEN [ok |-> TRUE, value |-> acc]
    ELSE IF ~IsDigitChar(text[i]) THEN ParseErr
    ELSE ParseDigits(text, i + 1, acc * 10 + DigitValue(text[i]))

\* str::parse::<isize>: an optional sign, then one digit or more
parse_isize(text) ==
    IF text = <<>> THEN ParseErr
    ELSE IF text[1] \in {"-", "+"}
    THEN IF Len(text) = 1 THEN ParseErr
         ELSE LET digits == ParseDigits(text, 2, 0)
              IN  IF ~digits.ok THEN ParseErr
                  ELSE IF text[1] = "-" THEN [ok |-> TRUE, value |-> 0 - digits.value]
                  ELSE digits
    ELSE ParseDigits(text, 1, 0)

\* CodeStats::csv_headers
csv_headers ==
    <<"filename", "static_mut_items", "total_fns", "total_lines", "total_statements",
      "unsafe_fns", "unsafe_statements", "unwraps">>

\* CodeStats::from_csv_row on a row of 8 fields: None when a counter does not parse
from_csv_row(value) ==
    LET parsed == [k \in 2..8 |-> parse_isize(value[k])]
    IN  IF \A k \in 2..8 : parsed[k].ok
        THEN [kind |-> "Some", filename |-> value[1],
              stats |-> MkStats(parsed[2].value, parsed[3].value, parsed[4].value,
                                parsed[5].value, parsed[6].value, parsed[7].value,
                                parsed[8].value)]
        ELSE None

\* what becomes of one row: reader.records() gives an error for a record
\* whose number of fields differs from the header's, deserialize wants 8
\* fields, from_csv_row wants counters that parse
RowOutcome(headers, row) ==
    IF Len(row) # Len(headers) THEN "record_err"
    ELSE IF Len(row) # 8 THEN "deserialize_err"
    ELSE IF from_csv_row(row) = None THEN "row_none"
    ELSE "ok"

\* collect::<BTreeMap<_, _>>: a later row replaces an earlier one of the same filename
Insert(files, entry) ==
    [f \in DOMAIN files \cup {entry.filename} |->
        IF f = entry.filename THEN entry.stats ELSE files[f]]

Loaded(files) == [panic |-> FALSE, files |-> files]
Panicked == [panic |-> TRUE, files |-> <<>>]

\* format_pr_comment_report: filter_map with result.ok()?, deserialize(None).ok()?
RECURSIVE pr_comment_rows(_, _, _, _)
pr_comment_rows(headers, rows, k, files) ==
    IF k > Len(rows) THEN Loaded(files)
    ELSE IF RowOutcome(headers, rows[k]) = "ok"
    THEN pr_comment_rows(headers, rows, k + 1, Insert(files, from_csv_row(rows[k])))
    ELSE pr_comment_rows(headers, rows, k + 1, files)

\* format_html_report: flat_map with result.unwrap(), deserialize(None).ok()?
RECURSIVE html_rows(_, _, _, _)
html_rows(headers, rows, k, files) ==
    IF k > Len(rows) THEN Loaded(files)
    ELSE IF RowOutcome(headers, rows[k]) = "record_err" THEN Panicked
    ELSE IF RowOutcome(headers, rows[k]) = "ok"
    THEN html_rows(headers, rows, k + 1, Insert(files, from_csv_row(rows[k])))
    ELSE html_rows(headers, rows, k + 1, files)

\* format_markdown_report: map with result.unwrap(), deserialize(None).unwrap(),
\* from_csv_row(&row).unwrap()
RECURSIVE markdown_rows(_, _, _, _)
markdown_rows(headers, rows, k, files) ==
    IF k > Len(rows) THEN Loaded(files)
    ELSE IF RowOutcome(headers, rows[k]) = "ok"
    THEN markdown_rows(headers, rows, k + 1, Insert(files, from_csv_row(rows[k])))
    ELSE Panicked

\* the characters of the fields of a baseline
Text0 == <<"0">>
Text1 == <<"1">>
OddTexts == {<<"x">>, <<>>, <<"-", "1">>}

\* a row of filename and seven counters, all 0 but the one in column k
RowWith(filename, k, text) ==
    <<filename>> \o [j \in 1..7 |-> IF j + 1 = k THEN text ELSE Text0]

RowNames == {1, 2}

\* rows that load, rows with a counter that is no number or is negative,
\* rows of 7 and of 9 fields
RowPool ==
    {RowWith(f, k, t) : f \in RowNames, k \in {2, 8}, t \in {Text0, Text1} \cup OddTexts}
        \cup {SubSeq(RowWith(f, 2, Text0), 1, 7) : f \in RowNames}
        \cup {Append(RowWith(f, 2, Text0), Text0) : f \in RowNames}

RECURSIVE RowSeqs(_)
RowSeqs(n) ==
    IF n = 0 THEN {<<>>}
    ELSE {<<>>} \cup {<<r>> \o more : r \in RowPool, more \in RowSeqs(n - 1)}

\* the header as written, two columns exchanged, a column missing, a column
\* renamed, a column too many
HeaderPool ==
    {csv_headers,
     [csv_headers EXCEPT ![2] = csv_headers[3], ![3] = csv_headers[2]],
     SubSeq(csv_headers, 1, 7),
     [csv_headers EXCEPT ![8] = "unwrap"],
     Append(csv_headers, "extra")}

Formats == {"markdown", "html", "pr-comment"}

BaselineFile(format, headers, rows) == [format |-> format, headers |-> headers, rows |-> rows]

InitBaseline ==
    /\ pc = "load"
    /\ report = NoReport
    /\ old_report = NoReport
    /\ diff_report = NoDiff
    /\ sum_items = <<>>
    /\ sum_perm = <<>>
    /\ sum_a = DefaultStats
    /\ sum_b = DefaultStats
    /\ item_fn = None
    /\ candidates = <<>>
    /\ lit_expr = None
    /\ lit_result = None
    /\ safe_fn = None
    /\ safe_found = <<>>
    /\ crate_files = <<>>
    /\ \E format \in Formats, headers \in HeaderPool, rows \in RowSeqs(MaxRows) :
          baseline_file = BaselineFile(format, headers, rows)
    /\ outcome = "none"
    /\ file_reports = <<>>
    /\ shown = None

\* the end of a load: the header was refused, the load panicked, or the
\* rows became old_report and the diff was taken
EndLoad(result) ==
    /\ pc' = "loaded"
    /\ IF result.panic
       THEN outcome' = "row_panic" /\ UNCHANGED <<old_report, diff_report>>
       ELSE /\ outcome' = "diffed"
            /\ old_report' = MkReport(result.files)
            /\ diff_report' = Diff(report, MkReport(result.files))
    /\ UNCHANGED <<report, sum_items, sum_perm, sum_a, sum_b, item_fn, candidates,
                   lit_expr, lit_result, safe_fn, safe_found, crate_files, baseline_file,
                   file_reports, shown>>

RefuseHeader(how) ==
    /\ pc' = "loaded"
    /\ outcome' = how
    /\ UNCHANGED <<report, old_report, diff_report, sum_items, sum_perm, sum_a, sum_b,
                   item_fn, candidates, lit_expr, lit_result, safe_fn, safe_found,
                   crate_files, baseline_file, file_reports, shown>>

\* format_markdown_report with --baseline
format_markdown_report ==
    /\ pc = "load"
    /\ baseline_file.format = "markdown"
    /\ IF baseline_file.headers # csv_headers
       THEN RefuseHeader("header_panic")
       ELSE EndLoad(markdown_rows(baseline_file.headers, baseline_file.rows, 1, <<>>))

\* format_html_report with --baseline
format_html_report ==
    /\ pc = "load"
    /\ baseline_file.format = "html"
    /\ IF baseline_file.headers # csv_headers
       THEN RefuseHeader("header_rejected")
       ELSE EndLoad(html_rows(baseline_file.headers, baseline_file.rows, 1, <<>>))

\* format_pr_comment_report
format_pr_comment_report ==
    /\ pc = "load"
    /\ baseline_file.format = "pr-comment"
    /\ IF baseline_file.headers # csv_headers
       THEN RefuseHeader("header_rejected")
       ELSE EndLoad(pr_comment_rows(baseline_file.headers, baseline_file.rows, 1, <<>>))

NextBaseline == format_markdown_report \/ format_html_report \/ format_pr_comment_report

SpecBaseline == InitBaseline /\ [][NextBaseline]_vars

----------------------------------------------------------------------------
(* The consumers of a DiffReport: what each writes of the two totals and   *)
(* of the changes                                                          *)

\* the keys of a BTreeMap in ascending order
RECURSIVE KeysInOrder(_)
KeysInOrder(keys) ==
    IF keys = {} THEN <<>>
    ELSE LET k == CHOOSE k \in keys : \A j \in keys : k <= j
         IN  <<k>> \o KeysInOrder(keys \ {k})

KeysOfKind(changes, kind) == KeysInOrder({f \in DOMAIN changes : changes[f].kind = kind})

\* format_diff: "{old} (no change)" or "{old} -> {new} ({plus}{delta})"
format_diff(old, new) ==
    IF new - old = 0
    THEN [text |-> "no change", old |-> old]
    ELSE [text |-> "change", old |-> old, new |-> new, delta |-> new - old]

\* the lines of the Summary of color_display
ColorSummary == {"unsafe_fns", "total_fns", "unsafe_statements", "static_mut_items", "unwraps"}

\* the rows of the summaries of format_html_diff and of the PR comment
SafetySummary == {"unsafe_fns", "unsafe_statements", "static_mut_items", "unwraps"}

\* DiffReport::color_display: the "No changes" line, the summary, then the
\* changed, the added and the removed files
color_display(self) ==
    [consumer   |-> "markdown",
     no_changes |-> DOMAIN self.changes = {},
     summary    |-> [f \in ColorSummary |-> format_diff(self.before_total[f], self.after_total[f])],
     files      |-> KeysOfKind(self.changes, "Changed") \o KeysOfKind(self.changes, "Added")
                        \o KeysOfKind(self.changes, "Removed")]

\* a row "{before} -> {after} ({delta})" or "| {before} | {after} | {delta} |"
SummaryRow(before, after) ==
    [text |-> "row", before |-> before, after |-> after, delta |-> after - before]

\* format_html_diff: nothing at all when there are no changes
format_html_diff(diff) ==
    IF DOMAIN diff.changes = {}
    THEN [consumer |-> "html", no_changes |-> TRUE, summary |-> <<>>, files |-> <<>>]
    ELSE [consumer   |-> "html",
          no_changes |-> FALSE,
          summary    |-> [f \in SafetySummary |->
                            SummaryRow(diff.before_total[f], diff.after_total[f])],
          files      |-> KeysInOrder(DOMAIN diff.changes)]

\* the body of format_pr_comment_report after the diff: the "No safety
\* changes detected" comment with the current values only, or the summary
\* table and the file changes
pr_comment(diff) ==
    IF DOMAIN diff.changes = {}
    THEN [consumer   |-> "pr-comment",
          no_changes |-> TRUE,
          summary    |-> [f \in SafetySummary |-> [text |-> "current", after |-> diff.after_total[f]]],
          files      |-> <<>>]
    ELSE [consumer   |-> "pr-comment",
          no_changes |-> FALSE,
          summary    |-> [f \in SafetySummary |->
                            SummaryRow(diff.before_total[f], diff.after_total[f])],
          files      |-> KeysInOrder(DOMAIN diff.changes)]

InitDisplay ==
    /\ pc = "display"
    /\ \E files \in FileMaps, old_files \in FileMaps :
          /\ report = MkReport(files)
          /\ old_report = MkReport(old_files)
          /\ diff_report = Diff(MkReport(files), MkReport(old_files))
    /\ sum_items = <<>>
    /\ sum_perm = <<>>
    /\ sum_a = DefaultStats
    /\ sum_b = DefaultStats
    /\ item_fn = None
    /\ candidates = <<>>
    /\ IdleOthers

Display(written) ==
    /\ shown' = written
    /\ pc' = "displayed"
    /\ UNCHANGED <<report, old_report, diff_report, sum_items, sum_perm, sum_a, sum_b,
                   item_fn, candidates, lit_expr, lit_result, safe_fn, safe_found,
                   crate_files, baseline_file, outcome, file_reports>>

\* format_markdown_report: report.diff(&old_report).color_display(&mut out)
DisplayMarkdown ==
    /\ pc = "display"
    /\ Display(color_display(diff_report))

\* format_html_report: html.push_str(&format_html_diff(&diff))
DisplayHtml ==
    /\ pc = "display"
    /\ Display(format_html_diff(diff_report))

\* format_pr_comment_report: the comment
DisplayPrComment ==
    /\ pc = "display"
    /\ Display(pr_comment(diff_report))

NextDisplay == DisplayMarkdown \/ DisplayHtml \/ DisplayPrComment

SpecDisplay == InitDisplay /\ [][NextDisplay]_vars

----------------------------------------------------------------------------
(* --format csv: the report written as a header and one row per file, and  *)
(* that file read back as a baseline                                       *)

\* the decimal digits of n >= 0, as characters
RECURSIVE DigitText(_)
DigitText(n) ==
    IF n < 10 THEN <<DigitChars[n + 1]>>
    ELSE Append(DigitText(n \div 10), DigitChars[(n % 10) + 1])

\* isize::to_string
to_string(n) == IF n < 0 THEN <<"-">> \o DigitText(0 - n) ELSE DigitText(n)

\* to_csv_row with the columns of total_fns and total_lines exchanged
to_csv_row_exchanged(self, filename) ==
    <<filename,
      to_string(self.static_mut_items),
      to_string(self.total_lines),
      to_string(self.total_fns),
      to_string(self.total_statements),
      to_string(self.unsafe_fns),
      to_string(self.unsafe_statements),
      to_string(self.unwraps)>>

\* CodeStats::to_csv_row
to_csv_row(self, filename) ==
    <<filename,
      to_string(self.static_mut_items),
      to_string(self.total_fns),
      to_string(self.total_lines),
      to_string(self.total_statements),
      to_string(self.unsafe_fns),
      to_string(self.unsafe_statements),
      to_string(self.unwraps)>>

\* for (filename, code_stats) in report.files.iter(): the rows in key order
RowsOf(files) ==
    LET keys == KeysInOrder(DOMAIN files)
    IN  [k \in 1..Len(keys) |-> to_csv_row(files[keys[k]], keys[k])]

\* records with a different value in every column, with counters of two
\* digits, and with counters below zero
CsvStats ==
    {DefaultStats,
     MkStats(1, 2, 3, 4, 5, 6, 7),
     MkStats(7, 6, 5, 4, 3, 2, 1),
     MkStats(10, 0, 0, 0, 0, 0, 12),
     MkStats(0 - 1, 0, 0, 0, 0, 0, 0),
     MkStats(0, 0, 0, 0, 0, 0, 0 - 10)}

InitCsv ==
    /\ pc = "csv"
    /\ \E D \in SUBSET FileIds : \E files \in [D -> CsvStats] : report = MkReport(files)
    /\ old_report = NoReport
    /\ diff_report = NoDiff
    /\ sum_items = <<>>
    /\ sum_perm = <<>>
    /\ sum_a = DefaultStats
    /\ sum_b = DefaultStats
    /\ item_fn = None
    /\ candidates = <<>>
    /\ IdleOthers

\* main with --format csv, the file given as --baseline to a later run of
\* one of the formats that read it
WriteCsv ==
    /\ pc = "csv"
    /\ \E format \in Formats :
          baseline_file' = BaselineFile(format, csv_headers, RowsOf(report.files))
    /\ pc' = "load"
    /\ UNCHANGED <<report, old_report, diff_report, sum_items, sum_perm, sum_a, sum_b,
                   item_fn, candidates, lit_expr, lit_result, safe_fn, safe_found,
                   crate_files, outcome, file_reports, shown>>

NextCsv == WriteCsv \/ NextBaseline

SpecCsv == InitCsv /\ [][NextCsv]_vars

----------------------------------------------------------------------------
(* generate_report with the rayon feature: one task per file, the tasks    *)
(* finishing in any order, their results collected once all have finished  *)

\* analyze_path on file f: the task reads its own file and owns its result
analyze_path(found, f) == [filename |-> f, stats |-> analyze_file(found[f])]

\* the files whose task has finished
Finished(results) == {results[k].filename : k \in 1..Len(results)}

\* flat_map(analyze_path).collect::<BTreeMap<_, _>>(): the None results are
\* dropped, the others inserted under their path
RECURSIVE collect_results(_, _, _)
collect_results(results, k, files) ==
    IF k > Len(results) THEN files
    ELSE IF results[k].stats = None THEN collect_results(results, k + 1, files)
    ELSE collect_results(results, k + 1, Insert(files, results[k]))

\* the results that are not None, in the order the tasks finished
RECURSIVE CompletionValues(_, _)
CompletionValues(results, k) ==
    IF k > Len(results) THEN <<>>
    ELSE IF results[k].stats = None THEN CompletionValues(results, k + 1)
    ELSE <<results[k].stats>> \o CompletionValues(results, k + 1)

\* a Report whose total is summed in the order the tasks finished
par_report_in_completion_order(results) ==
    [files |-> collect_results(results, 1, <<>>),
     total |-> Sum(CompletionValues(results, 1))]

\* Report { total: file_reports.values().cloned().sum(), files: file_reports }
par_report(results) == MkReport(collect_results(results, 1, <<>>))

InitRayon ==
    /\ pc = "par_iter"
    /\ report = NoReport
    /\ old_report = NoReport
    /\ diff_report = NoDiff
    /\ sum_items = <<>>
    /\ sum_perm = <<>>
    /\ sum_a = DefaultStats
    /\ sum_b = DefaultStats
    /\ item_fn = None
    /\ candidates = <<>>
    /\ lit_expr = None
    /\ lit_result = None
    /\ safe_fn = None
    /\ safe_found = <<>>
    /\ \E D \in SUBSET FileIds : crate_files \in [D -> ShortFiles]
    /\ baseline_file = None
    /\ outcome = "none"
    /\ file_reports = <<>>
    /\ shown = None

\* one task of par_iter().flat_map(analyze_path) finishes
par_analyze_path ==
    /\ pc = "par_iter"
    /\ \E f \in DOMAIN crate_files \ Finished(file_reports) :
          file_reports' = Append(file_reports, analyze_path(crate_files, f))
    /\ UNCHANGED <<pc, report, old_report, diff_report, sum_items, sum_perm, sum_a, sum_b,
                   item_fn, candidates, lit_expr, lit_result, safe_fn, safe_found,
                   crate_files, baseline_file, outcome, shown>>

\* every task has finished: collect and build the Report
par_collect ==
    /\ pc = "par_iter"
    /\ Finished(file_reports) = DOMAIN crate_files
    /\ report' = par_report(file_reports)
    /\ pc' = "walked"
    /\ UNCHANGED <<old_report, diff_report, sum_items, sum_perm, sum_a, sum_b,
                   item_fn, candidates, others>>

NextRayon == par_analyze_path \/ par_collect

SpecRayon == InitRayon /\ [][NextRayon]_vars

----------------------------------------------------------------------------
(* visit_item_fn on the functions made of early-return ifs and a tail, as  *)
(* is_valid, get_code and simple_flag of test_samples are                  *)

ShapeValues == {Lit(0), Lit(1), Lit(2)}

\* if cond { return v; }
GuardIf(v) == ExprStmt(If(<<ExprStmt(Return(v), TRUE)>>, None), FALSE)

\* if cond { v } else { w }
IfElse(v, w) == If(<<ExprStmt(v, FALSE)>>, BlockExpr(<<ExprStmt(w, FALSE)>>))

RECURSIVE GuardSeqs(_)
GuardSeqs(n) ==
    IF n = 0 THEN {<<>>}
    ELSE {<<>>} \cup {<<GuardIf(v)>> \o rest : v \in ShapeValues, rest \in GuardSeqs(n - 1)}

ShapeTails ==
    {ExprStmt(v, FALSE) : v \in ShapeValues}
        \cup {ExprStmt(IfElse(v, w), FALSE) : v \in ShapeValues, w \in ShapeValues}

InitShape ==
    /\ pc = "visit"
    /\ report = NoReport
    /\ old_report = NoReport
    /\ diff_report = NoDiff
    /\ sum_items = <<>>
    /\ sum_perm = <<>>
    /\ sum_a = DefaultStats
    /\ sum_b = DefaultStats
    /\ item_fn \in {ItemFn(ident, line, o, Append(g, t)) :
                        ident \in FnNames, line \in 1..MaxLine, o \in Outputs,
                        g \in GuardSeqs(MaxIfs), t \in ShapeTails}
    /\ candidates = <<>>
    /\ IdleOthers

SpecShape == InitShape /\ [][NextBool]_vars

----------------------------------------------------------------------------
(* The claim "the per-field sum of the entries", computed field by field  *)

RECURSIVE FieldTotal(_, _)
FieldTotal(files, f) ==
    IF DOMAIN files = {} THEN 0
    ELSE LET k == CHOOSE k \in DOMAIN files : TRUE
         IN  files[k][f] + FieldTotal([j \in DOMAIN files \ {k} |-> files[j]], f)

FieldwiseSum(files) == [f \in FieldNames |-> FieldTotal(files, f)]

SafetyDiffers(x, y) ==
    \/ x.unsafe_fns # y.unsafe_fns
    \/ x.unsafe_statements # y.unsafe_statements
    \/ x.static_mut_items # y.static_mut_items
    \/ x.unwraps # y.unwraps

CosmeticDiffers(x, y) ==
    \/ x.total_lines # y.total_lines
    \/ x.total_fns # y.total_fns
    \/ x.total_statements # y.total_statements

Both == DOMAIN report.files \cap DOMAIN old_report.files
OnlyCurrent == DOMAIN report.files \ DOMAIN old_report.files
OnlyBaseline == DOMAIN old_report.files \ DOMAIN report.files

----------------------------------------------------------------------------
\* C1: summing a collection of CodeStats gives the same total, in all seven
\* fields, for every permutation of the collection.
C1_SumOrderIndependent ==
    pc = "summed" => sum_a = sum_b

\* C2: the total of every Report (generated or rebuilt from a baseline), and so
\* the before_total / after_total of a DiffReport, is the field-wise sum of the
\* CodeStats of its files; an empty report has an all-zero total.
C2_TotalIsFieldwiseSum ==
    /\ pc \in {"reported", "diffed"} => report.total = FieldwiseSum(report.files)
    /\ pc = "diffed" =>
          /\ old_report.total = FieldwiseSum(old_report.files)
          /\ diff_report.after_total = FieldwiseSum(report.files)
          /\ diff_report.before_total = FieldwiseSum(old_report.files)

\* C3: a file present in both reports is in changes iff one of unsafe_fns,
\* unsafe_statements, static_mut_items, unwraps differs, and then as Changed
\* with before = the baseline's stats and after = the current stats.
C3_ChangedIffSafetyDiffers ==
    pc = "diffed" =>
        \A f \in Both :
            /\ f \in DOMAIN diff_report.changes
                  <=> SafetyDiffers(old_report.files[f], report.files[f])
            /\ f \in DOMAIN diff_report.changes =>
                  diff_report.changes[f] =
                      [kind |-> "Changed", before |-> old_report.files[f],
                       after |-> report.files[f]]

\* a diff where one common file differs only in unwraps and is Changed, and
\* another differs only in cosmetic counters and is dropped
C3_Witness ==
    /\ pc = "diffed"
    /\ \E f \in Both :
          /\ old_report.files[f].unwraps # report.files[f].unwraps
          /\ [old_report.files[f] EXCEPT !.unwraps = 0]
                = [report.files[f] EXCEPT !.unwraps = 0]
          /\ f \in DOMAIN diff_report.changes
          /\ diff_report.changes[f].kind = "Changed"
    /\ \E f \in Both :
          /\ CosmeticDiffers(old_report.files[f], report.files[f])
          /\ ~SafetyDiffers(old_report.files[f], report.files[f])
          /\ f \notin DOMAIN diff_report.changes

\* C4: a file only in current is Added with current's stats, a file only in
\* the baseline is Removed with the baseline's stats, and changes has no key
\* outside the union of the two key sets.
C4_AddedRemoved ==
    pc = "diffed" =>
        /\ \A f \in OnlyCurrent :
              /\ f \in DOMAIN diff_report.changes
              /\ diff_report.changes[f] = [kind |-> "Added", stats |-> report.files[f]]
        /\ \A f \in OnlyBaseline :
              /\ f \in DOMAIN diff_report.changes
              /\ diff_report.changes[f] = [kind |-> "Removed", stats |-> old_report.files[f]]
        /\ DOMAIN diff_report.changes \subseteq
              DOMAIN report.files \cup DOMAIN old_report.files

\* a diff with one Added and one Removed file, each with counters set
C4_Witness ==
    /\ pc = "diffed"
    /\ \E f \in OnlyCurrent, g \in OnlyBaseline :
          /\ diff_report.changes[f].kind = "Added"
          /\ diff_report.changes[g].kind = "Removed"
          /\ report.files[f] # DefaultStats
          /\ old_report.files[g] # DefaultStats
          /\ report.files[f] # old_report.files[g]

\* C5: R.diff(R) has no entry in changes, and before_total = after_total.
C5_SelfDiffEmpty ==
    (pc = "diffed" /\ report = old_report) =>
        /\ DOMAIN diff_report.changes = {}
        /\ diff_report.before_total = diff_report.after_total

\* a report of two files with counters set, diffed against itself
C5_Witness ==
    /\ pc = "diffed"
    /\ report = old_report
    /\ Cardinality(DOMAIN report.files) >= 2
    /\ \E f \in DOMAIN report.files : report.files[f] # DefaultStats
    /\ DOMAIN diff_report.changes = {}

----------------------------------------------------------------------------
(* What the claims about the detector speak of, read off the syntax tree   *)

\* the literal 0 or 1 (a negated literal evaluating to 0 counts as 0)
IsLit01(e) ==
    IF e.kind = "Lit" THEN e.lit = "Int" /\ e.digits \in {<<0>>, <<1>>}
    ELSE IF e.kind = "Unary"
    THEN e.op = "Neg" /\ e.expr.kind = "Lit" /\ e.expr = Lit(0)
    ELSE FALSE

Reported == candidates # <<>>

\* if cond { return L; } with L the literal 0 or 1
IsGuardStmt(st) ==
    /\ st.kind = "Expr"
    /\ st.expr.kind = "If"
    /\ st.expr.else_branch = None
    /\ Len(st.expr.then_branch) = 1
    /\ st.expr.then_branch[1].kind = "Expr"
    /\ st.expr.then_branch[1].semi
    /\ st.expr.then_branch[1].expr.kind = "Return"
    /\ st.expr.then_branch[1].expr.expr # None
    /\ IsLit01(st.expr.then_branch[1].expr.expr)

\* a block that is the tail literal 0 or 1
IsLitBlock(b) ==
    /\ Len(b) = 1
    /\ b[1].kind = "Expr"
    /\ ~b[1].semi
    /\ IsLit01(b[1].expr)

\* a tail that is the literal 0 or 1, or if/else of two such blocks
IsShapeTail(st) ==
    /\ st.kind = "Expr"
    /\ ~st.semi
    /\ \/ IsLit01(st.expr)
       \/ /\ st.expr.kind = "If"
          /\ IsLitBlock(st.expr.then_branch)
          /\ st.expr.else_branch.kind = "Block"
          /\ IsLitBlock(st.expr.else_branch.block)

IsGuardedShape(i) ==
    /\ i.output = I32
    /\ Len(i.block) >= 1
    /\ \A k \in 1..(Len(i.block) - 1) : IsGuardStmt(i.block[k])
    /\ IsShapeTail(i.block[Len(i.block)])

\* a return with no value, or whose value is not the literal 0 or 1
IsBadReturn(e) ==
    IF e.kind = "Return" THEN (IF e.expr = None THEN TRUE ELSE ~IsLit01(e.expr)) ELSE FALSE

\* such a return anywhere in the tree, loop bodies and match arms included
RECURSIVE ExprHasBadReturn(_)
RECURSIVE BlockHasBadReturn(_)
ExprHasBadReturn(e) ==
    CASE e.kind = "Return" -> IsBadReturn(e)
      [] e.kind \in {"Block", "Unsafe", "Loop"} -> BlockHasBadReturn(e.block)
      [] e.kind = "If" ->
            \/ BlockHasBadReturn(e.then_branch)
            \/ (IF e.else_branch = None THEN FALSE ELSE ExprHasBadReturn(e.else_branch))
      [] e.kind = "Match" -> \E k \in 1..Len(e.arms) : ExprHasBadReturn(e.arms[k])
      [] OTHER -> FALSE

BlockHasBadReturn(b) ==
    \E k \in 1..Len(b) : IF b[k].kind = "Expr" THEN ExprHasBadReturn(b[k].expr) ELSE FALSE

\* the blocks the check walks into from a block: then-blocks, else-blocks,
\* block-bodied match arms, nested and unsafe blocks
RECURSIVE ReachedFromExpr(_)
RECURSIVE ReachedBlocks(_)
RECURSIVE ReachedFromStmts(_, _)
RECURSIVE ReachedFromArms(_, _)
ReachedFromExpr(e) ==
    CASE e.kind \in {"Block", "Unsafe"} -> ReachedBlocks(e.block)
      [] e.kind = "If" ->
            ReachedBlocks(e.then_branch)
                \cup (IF e.else_branch = None THEN {} ELSE ReachedFromExpr(e.else_branch))
      [] e.kind = "Match" -> ReachedFromArms(e.arms, 1)
      [] OTHER -> {}

ReachedFromArms(arms, k) ==
    IF k > Len(arms) THEN {} ELSE ReachedFromExpr(arms[k]) \cup ReachedFromArms(arms, k + 1)

ReachedFromStmts(b, k) ==
    IF k > Len(b) THEN {}
    ELSE (IF b[k].kind = "Expr" THEN ReachedFromExpr(b[k].expr) ELSE {})
            \cup ReachedFromStmts(b, k + 1)

ReachedBlocks(b) == {b} \cup ReachedFromStmts(b, 1)

\* the tail expression of b is neither a literal 0 / 1 nor a nested
\* if / match / block / unsafe block that passes the check
HasBadTail(b) ==
    IF HasFinalExpr(b)
    THEN LET e == b[Len(b)].expr
         IN  /\ ~IsLit01(e)
             /\ ~(e.kind \in {"If", "Match", "Block", "Unsafe"}
                    /\ check_expr_returns_only_zero_or_one(e))
    ELSE FALSE

\* the body is one statement, a tail expression of the given kind
IsSingleTail(b, kind) ==
    IF Len(b) = 1 THEN HasFinalExpr(b) /\ b[1].expr.kind = kind ELSE FALSE

\* an arm body that is some other expression: another literal, a negated
\* literal, a call
IsOtherArm(a) == a.kind \in {"Lit", "Unary", "Call"} /\ ~IsLit01(a)

----------------------------------------------------------------------------
\* C6: an i32 function whose body is a sequence of `if cond { return L; }`
\* followed by a tail literal L or an if/else of two tail literals L, every L
\* being 0 or 1, is reported, with its name and the line of its declaration.
C6_GuardedShapeReported ==
    (pc = "visited" /\ IsGuardedShape(item_fn)) =>
        candidates = <<BoolCandidate(item_fn.ident, item_fn.line)>>

\* two early returns and an if/else tail, declared on line 2, reported
C6_Witness ==
    /\ pc = "visited"
    /\ IsGuardedShape(item_fn)
    /\ Len(item_fn.block) = 3
    /\ item_fn.block[3].expr.kind = "If"
    /\ item_fn.block[1] # item_fn.block[2]
    /\ item_fn.line = 2
    /\ candidates = <<BoolCandidate(item_fn.ident, 2)>>

\* C7: a function whose body holds, at any nesting depth (an if/else
\* branch, a match arm, a nested or unsafe block, a loop body), a return of
\* something other than the literal 0 or 1, or a return with no value, is
\* not reported.
C7_BadReturnNotReported ==
    (pc = "visited" /\ BlockHasBadReturn(item_fn.block)) => ~Reported

\* C8: a match passes only if every arm passes: an i32 function whose tail
\* is a match with an arm yielding some other expression is not reported,
\* and one whose tail is a match with only 0 / 1 arms is reported.
C8_MatchArmsChecked ==
    (pc = "visited" /\ IsSingleTail(item_fn.block, "Match")) =>
        LET arms == item_fn.block[1].expr.arms
        IN  /\ (\E k \in 1..Len(arms) : IsOtherArm(arms[k])) => ~Reported
            /\ (\A k \in 1..Len(arms) : IsLit01(arms[k])) => Reported

\* C9: if the tail expression of the body, or of any block the check
\* reaches, is neither a literal 0 / 1 nor a nested if / match / block /
\* unsafe block that passes the check, the function is not reported.
C9_BadTailNotReported ==
    pc = "visited" =>
        \A b \in ReachedBlocks(item_fn.block) : HasBadTail(b) => ~Reported

\* a body whose own tail is fine while the tail of a block nested in it is
\* a call or another literal
C9_Witness ==
    /\ pc = "visited"
    /\ ~HasBadTail(item_fn.block)
    /\ HasFinalExpr(item_fn.block)
    /\ IsLit01(item_fn.block[Len(item_fn.block)].expr)
    /\ \E b \in ReachedBlocks(item_fn.block) :
          HasBadTail(b) /\ b[Len(b)].expr.kind \in {"Call", "Lit"}
    /\ ~Reported

\* C10: an if passes iff its then-block passes and, when there is an else,
\* the else branch passes; an if without else as the tail is accepted on its
\* then-block alone.
C10_IfPassesIffBranchesPass ==
    (pc = "visited" /\ IsSingleTail(item_fn.block, "If")) =>
        LET e == item_fn.block[1].expr
        IN  Reported <=>
                /\ check_block_returns_only_zero_or_one(e.then_branch)
                /\ (e.else_branch # None =>
                       check_expr_returns_only_zero_or_one(e.else_branch))

\* fn f() -> i32 { if c { 1 } } is reported
C10_Witness ==
    /\ pc = "visited"
    /\ IsSingleTail(item_fn.block, "If")
    /\ item_fn.block[1].expr.else_branch = None
    /\ IsLitBlock(item_fn.block[1].expr.then_branch)
    /\ Reported

----------------------------------------------------------------------------
\* a return, of whatever value, anywhere in the tree
RECURSIVE ExprHasReturn(_)
RECURSIVE BlockHasReturn(_)
ExprHasReturn(e) ==
    CASE e.kind = "Return" -> TRUE
      [] e.kind \in {"Block", "Unsafe", "Loop"} -> BlockHasReturn(e.block)
      [] e.kind = "If" ->
            \/ BlockHasReturn(e.then_branch)
            \/ (IF e.else_branch = None THEN FALSE ELSE ExprHasReturn(e.else_branch))
      [] e.kind = "Match" -> \E k \in 1..Len(e.arms) : ExprHasReturn(e.arms[k])
      [] OTHER -> FALSE

BlockHasReturn(b) ==
    \E k \in 1..Len(b) : IF b[k].kind = "Expr" THEN ExprHasReturn(b[k].expr) ELSE FALSE

\* every statement of b is a let or ends in a semicolon
AllTerminated(b) ==
    \A k \in 1..Len(b) : IF b[k].kind = "Expr" THEN b[k].semi ELSE TRUE

\* the body is just a loop
IsJustLoop(b) ==
    IF Len(b) = 1 THEN (IF b[1].kind = "Expr" THEN b[1].expr.kind = "Loop" ELSE FALSE) ELSE FALSE

\* an empty body, a body of semicolon-terminated statements without return,
\* or a body that is just a loop without return
IsNoYieldBody(b) ==
    \/ b = <<>>
    \/ AllTerminated(b) /\ ~BlockHasReturn(b)
    \/ IsJustLoop(b) /\ ~BlockHasReturn(b)

\* C11: an i32 function whose body yields no 0/1 return or tail expression
\* (an empty body, a body of only semicolon-terminated non-returning
\* statements, a body that is just an infinite loop without return) is not
\* reported.
C11_NoYieldNotReported ==
    (pc = "visited" /\ item_fn.output = I32 /\ IsNoYieldBody(item_fn.block)) => ~Reported

\* fn f() -> i32 { loop { g(); } } has been visited
C11_Witness ==
    /\ pc = "visited"
    /\ item_fn.output = I32
    /\ IsJustLoop(item_fn.block)
    /\ ~item_fn.block[1].semi
    /\ item_fn.block[1].expr.block = <<ExprStmt(Call, TRUE)>>
    /\ ~Reported

----------------------------------------------------------------------------
\* the declared return type is the primitive i32: written i32, or by its
\* path in core::primitive
DeclaredI32(output) ==
    IF output.kind = "Type"
    THEN output.ty \in {TypePath(<<"i32">>), TypePath(<<"core", "primitive", "i32">>)}
    ELSE FALSE

\* C12: a function is reported only if its declared return type is exactly
\* i32; with any other return type, or none, it is never reported whatever
\* its body.
C12_OnlyI32Reported ==
    (pc = "visited" /\ Reported) => DeclaredI32(item_fn.output)

----------------------------------------------------------------------------
\* the digits of an integer literal of value 0, and of value 1
IsZeroDigits(ds) == \A i \in 1..Len(ds) : ds[i] = 0
IsOneDigits(ds) == ds[Len(ds)] = 1 /\ \A i \in 1..(Len(ds) - 1) : ds[i] = 0

IsIntLiteral(e) == IF e.kind = "Lit" THEN e.lit = "Int" ELSE FALSE

\* the integer literals of value 0 or 1, and the negated integer literals
\* whose negation is 0 or 1: a literal carries no sign, so the negation of
\* zero only
IsZeroOrOne(e) ==
    \/ IsIntLiteral(e) /\ (IsZeroDigits(e.digits) \/ IsOneDigits(e.digits))
    \/ /\ e.kind = "Unary"
       /\ e.op = "Neg"
       /\ IsIntLiteral(e.expr)
       /\ IsZeroDigits(e.expr.digits)

\* C13: is_zero_or_one_literal accepts exactly the integer literals 0 and 1
\* and the negated integer literals whose negation is 0 or 1 (-0 is
\* accepted, -1 rejected); a literal that does not fit in i32, negated or
\* not, is not a 0/1 literal, and nothing overflows.
C13_ZeroOrOneLiteral ==
    pc = "tested" =>
        /\ lit_result.value = IsZeroOrOne(lit_expr)
        /\ ~lit_result.overflow
        /\ lit_expr = Unary("Neg", Lit(0)) => lit_result.value
        /\ lit_expr = Unary("Neg", Lit(1)) => ~lit_result.value

\* -2147483648: the literal under the minus sign does not fit in i32
C13_Witness ==
    /\ pc = "tested"
    /\ lit_expr = Unary("Neg", LitInt(<<2, 1, 4, 7, 4, 8, 3, 6, 4, 8>>))
    /\ lit_result = [value |-> FALSE, overflow |-> FALSE]

----------------------------------------------------------------------------
\* how many declared parameters have a raw pointer type
RECURSIVE RawPointerParams(_)
RawPointerParams(inputs) ==
    IF inputs = <<>> THEN 0
    ELSE (IF Head(inputs).kind = "Ptr" THEN 1 ELSE 0) + RawPointerParams(Tail(inputs))

SafeFlagged == safe_found # <<>>

\* C14: the unsafe -> safe detector flags a function iff it is declared
\* unsafe and none of its declared parameters has a raw pointer type; a
\* function that is not unsafe is never flagged.
C14_SafeCandidate ==
    pc = "safe_visited" =>
        /\ SafeFlagged <=> (safe_fn.unsafety /\ RawPointerParams(safe_fn.inputs) = 0)
        /\ ~safe_fn.unsafety => ~SafeFlagged
        /\ SafeFlagged => safe_found = <<SafeCandidate(safe_fn.ident, safe_fn.line)>>

\* an unsafe function with a raw pointer parameter, not flagged
C14_Witness ==
    /\ pc = "safe_visited"
    /\ safe_fn.unsafety
    /\ RawPointerParams(safe_fn.inputs) = 1
    /\ Len(safe_fn.inputs) = 2
    /\ ~SafeFlagged

----------------------------------------------------------------------------
\* the unsafe blocks of a tree, at any depth, as a sequence
RECURSIVE UnsafeBlocksOfExpr(_)
RECURSIVE UnsafeBlocksOfBlock(_, _)
UnsafeBlocksOfExpr(e) ==
    CASE e.kind = "Unsafe" -> <<e.block>> \o UnsafeBlocksOfBlock(e.block, 1)
      [] e.kind \in {"Block", "Loop"} -> UnsafeBlocksOfBlock(e.block, 1)
      [] e.kind = "MethodCall" -> UnsafeBlocksOfExpr(e.receiver)
      [] OTHER -> <<>>

UnsafeBlocksOfBlock(b, k) ==
    IF k > Len(b) THEN <<>>
    ELSE (IF b[k].kind = "Expr" THEN UnsafeBlocksOfExpr(b[k].expr) ELSE <<>>)
            \o UnsafeBlocksOfBlock(b, k + 1)

RECURSIVE UnsafeBlocksOfItems(_, _)
UnsafeBlocksOfItems(items, k) ==
    IF k > Len(items) THEN <<>>
    ELSE (IF items[k].kind = "Fn" THEN UnsafeBlocksOfBlock(items[k].block, 1) ELSE <<>>)
            \o UnsafeBlocksOfItems(items, k + 1)

\* the sum of the lengths of the blocks of a sequence
RECURSIVE TotalLen(_)
TotalLen(blocks) == IF blocks = <<>> THEN 0 ELSE Len(Head(blocks)) + TotalLen(Tail(blocks))

\* C15: after collecting a file, unsafe_statements is the sum, over every
\* unsafe block of the file at any depth, of the number of statements
\* directly in that block: one block of 3 statements gives 3, a second
\* block of 2 statements in the same file gives 5, and a nested unsafe
\* block adds only its own direct statements.
C15_UnsafeStatements ==
    pc = "walked" =>
        \A f \in DOMAIN report.files :
            LET blocks == UnsafeBlocksOfItems(crate_files[f].items, 1)
            IN  /\ report.files[f].unsafe_statements = TotalLen(blocks)
                /\ (Len(blocks) = 1 /\ Len(blocks[1]) = 3) =>
                       report.files[f].unsafe_statements = 3
                /\ (Len(blocks) = 2 /\ Len(blocks[1]) = 3 /\ Len(blocks[2]) = 2) =>
                       report.files[f].unsafe_statements = 5

\* unsafe { let; let; unsafe { let; let; } } then unsafe { let; let; }: 3 + 2 + 2
C15_Witness ==
    /\ pc = "walked"
    /\ 1 \in DOMAIN report.files
    /\ crate_files[1].items[1].block =
          <<UnsafeStmt(<<Local, Local, UnsafeStmt(<<Local, Local>>)>>), UnsafeStmt(<<Local, Local>>)>>
    /\ Len(crate_files[1].items) = 1
    /\ report.files[1].unsafe_statements = 7

----------------------------------------------------------------------------
\* C16: every CodeStats the collector produces for a file, and every Report
\* total summed from such records, has unsafe_fns <= total_fns.
C16_UnsafeFnsAtMostTotal ==
    pc = "walked" =>
        /\ \A f \in DOMAIN report.files :
              report.files[f].unsafe_fns <= report.files[f].total_fns
        /\ report.total.unsafe_fns <= report.total.total_fns

\* two files are reported, with one unsafe function among two in all
C16_Witness ==
    /\ pc = "walked"
    /\ Cardinality(DOMAIN report.files) = 2
    /\ report.total.unsafe_fns = 1
    /\ report.total.total_fns = 2

----------------------------------------------------------------------------
\* the files of the crate that can be read and parsed
GoodFiles(found) == {f \in DOMAIN found : found[f].readable /\ found[f].parses}

\* C18: a file that cannot be read or parsed is skipped without failing the
\* run: it has no entry in Report.files and adds nothing to Report.total,
\* and every other file is still analysed and reported.
C18_BadFileSkipped ==
    pc = "walked" =>
        LET good == GoodFiles(crate_files)
        IN  /\ DOMAIN report.files = good
            /\ \A f \in good : report.files[f].total_lines = crate_files[f].lines
            /\ report = generate_report([f \in good |-> crate_files[f]])

\* a crate of one file that does not parse and one that does
C18_Witness ==
    /\ pc = "walked"
    /\ DOMAIN crate_files = {1, 2}
    /\ crate_files[1] = Unparseable
    /\ DOMAIN report.files = {2}
    /\ report.total.total_fns = 1

----------------------------------------------------------------------------
(* The baseline load                                                       *)

StatsFields ==
    {"static_mut_items", "total_fns", "total_lines", "total_statements",
     "unsafe_fns", "unsafe_statements", "unwraps"}

NonNegative(stats) == \A field \in StatsFields : stats[field] >= 0

\* C17: every field of every CodeStats of a Report, per-file entry or total,
\* is >= 0, also in the Report loaded from the rows of a baseline by
\* from_csv_row
C17_FieldsNonNegative ==
    (pc = "loaded" /\ outcome = "diffed") =>
        /\ \A f \in DOMAIN old_report.files : NonNegative(old_report.files[f])
        /\ NonNegative(old_report.total)

\* the names of a header, whatever their order
NamesOf(headers) == {headers[k] : k \in 1..Len(headers)}

IsHeaderSet(headers) == Len(headers) = 8 /\ NamesOf(headers) = NamesOf(csv_headers)

\* the header passed the validation: the load went on to the rows
HeaderAccepted == outcome \in {"diffed", "row_panic"}

\* C19: a baseline is accepted if and only if its header is the set of the
\* 8 names, in whatever column order
C19_HeaderOrderIndependent ==
    pc = "loaded" => (HeaderAccepted <=> IsHeaderSet(baseline_file.headers))

\* a counter that is an integer: an optional sign and digits
IsIntegerText(text) ==
    /\ text # <<>>
    /\ LET body == IF text[1] \in {"-", "+"} THEN Tail(text) ELSE text
       IN  body # <<>> /\ \A k \in 1..Len(body) : IsDigitChar(body[k])

IsGoodRow(row) == Len(row) = 8 /\ \A k \in 2..8 : IsIntegerText(row[k])

\* the files of the rows that parse
GoodRowNames(rows) == {rows[k][1] : k \in {j \in 1..Len(rows) : IsGoodRow(rows[j])}}

\* C20: a row that fails to parse is skipped, every other row is loaded into
\* the baseline Report, and the load is not aborted
C20_BadRowSkipped ==
    (pc = "loaded" /\ baseline_file.headers = csv_headers) =>
        /\ outcome = "diffed"
        /\ DOMAIN old_report.files = GoodRowNames(baseline_file.rows)

\* C21: in the three formats that load a baseline, a wrong header or a row
\* whose counters do not parse never makes the program panic: the row is
\* skipped, or the baseline is left aside and the diff skipped
C21_MalformedNeverPanics ==
    pc = "loaded" => outcome \in {"diffed", "header_rejected"}

----------------------------------------------------------------------------
(* The concurrent walk                                                     *)

\* C22: with per-file tasks finishing in any order, the Report built from
\* their results, files and total, is the Report of sequential processing
C22_RayonSameAsSequential ==
    pc = "walked" => report = generate_report(crate_files)

\* two files analysed, the greater path first, their static_mut_items differing
C22_Witness ==
    /\ pc = "walked"
    /\ Len(file_reports) = 2
    /\ file_reports[1].filename > file_reports[2].filename
    /\ file_reports[1].stats # None
    /\ file_reports[2].stats # None
    /\ file_reports[1].stats.static_mut_items # file_reports[2].stats.static_mut_items
    /\ report = generate_report(crate_files)

----------------------------------------------------------------------------
(* The display of a diff                                                   *)

\* the value a summary line gives for the total before and for the total
\* after: a line saying no change, or giving only the current value of an
\* unchanged report, stands for both
BeforeOf(line) ==
    IF line.text = "no change" THEN line.old
    ELSE IF line.text = "change" THEN line.old
    ELSE IF line.text = "current" THEN line.after
    ELSE line.before

AfterOf(line) ==
    IF line.text = "no change" THEN line.old
    ELSE IF line.text = "change" THEN line.new
    ELSE line.after

ReportsBothTotals ==
    \A f \in SafetySummary :
        /\ f \in DOMAIN shown.summary
        /\ BeforeOf(shown.summary[f]) = diff_report.before_total[f]
        /\ AfterOf(shown.summary[f]) = diff_report.after_total[f]

\* C23: every consumer of a DiffReport reports before_total and after_total,
\* also when the diff holds no per-file change
C23_TotalsAlwaysReported ==
    pc = "displayed" => ReportsBothTotals

----------------------------------------------------------------------------
(* The total of a Report                                                   *)

\* the sum of one field over the files of a map
RECURSIVE FieldSum(_, _)
FieldSum(files, field) ==
    IF DOMAIN files = {} THEN 0
    ELSE LET k == CHOOSE k \in DOMAIN files : TRUE
         IN  files[k][field] + FieldSum([j \in DOMAIN files \ {k} |-> files[j]], field)

FirstKey(files) == CHOOSE k \in DOMAIN files : \A j \in DOMAIN files : k <= j

\* static_mut_items of the first file once, of every later file twice; the
\* other fields once
DoubleAdded(r) ==
    DOMAIN r.files # {} =>
        /\ r.total.static_mut_items =
              r.files[FirstKey(r.files)].static_mut_items
                + 2 * (FieldSum(r.files, "static_mut_items")
                         - r.files[FirstKey(r.files)].static_mut_items)
        /\ \A field \in StatsFields \ {"static_mut_items"} :
              r.total[field] = FieldSum(r.files, field)

\* C24: the total of a Report of n >= 1 files counts static_mut_items of the
\* first file in key order once and of every later file twice, and is the
\* plain sum in each of the other six fields
C24_StaticMutDoubleAdded ==
    /\ pc \in {"reported", "diffed"} => DoubleAdded(report)
    /\ pc = "diffed" => DoubleAdded(old_report)

\* two files, the later one with static mut items, its count taken twice
C24_Witness ==
    /\ pc = "reported"
    /\ DOMAIN report.files = {1, 2}
    /\ report.files[1].total_lines = 1
    /\ report.files[2].static_mut_items = 1
    /\ report.total.static_mut_items = 2
    /\ report.total.total_lines = report.files[1].total_lines + report.files[2].total_lines

----------------------------------------------------------------------------
(* Blocks that yield nothing, as statements of the body                    *)

\* a return among the direct statements of b
HasDirectReturn(b) ==
    \E k \in 1..Len(b) : IF b[k].kind = "Expr" THEN b[k].expr.kind = "Return" ELSE FALSE

\* b ends in an expression without semicolon
HasTail(b) ==
    IF b = <<>> THEN FALSE
    ELSE IF b[Len(b)].kind = "Expr" THEN ~b[Len(b)].semi ELSE FALSE

IsBarren(b) == ~HasDirectReturn(b) /\ ~HasTail(b)

\* an if whose then-block, or a nested or unsafe block that, has neither a
\* direct return nor a tail
IsBarrenStmt(st) ==
    IF st.kind # "Expr" THEN FALSE
    ELSE IF st.expr.kind = "If" THEN IsBarren(st.expr.then_branch)
    ELSE IF st.expr.kind \in {"Block", "Unsafe"} THEN IsBarren(st.expr.block)
    ELSE FALSE

----------------------------------------------------------------------------
(* A diff without changes                                                  *)

SameSafetyTotals(d) == \A f \in SafetySummary : d.before_total[f] = d.after_total[f]

\* C26: whenever current.diff(baseline) has no changes, before_total and
\* after_total agree on unsafe_fns, unsafe_statements, static_mut_items and
\* unwraps
C26_NoChangesSameSafetyTotals ==
    (pc = "diffed" /\ DOMAIN diff_report.changes = {}) => SameSafetyTotals(diff_report)

\* a diff without changes of two reports that differ, in their lines, and
\* hold static mut items
C26_Witness ==
    /\ pc = "diffed"
    /\ DOMAIN diff_report.changes = {}
    /\ diff_report.after_total.static_mut_items > 0
    /\ diff_report.before_total # diff_report.after_total
    /\ SameSafetyTotals(diff_report)

----------------------------------------------------------------------------
(* The diff taken the other way round                                      *)

\* the entry e of one diff is the entry m of the other, mirrored
IsMirror(e, m) ==
    IF e.kind = "Added" THEN m.kind = "Removed" /\ m.stats = e.stats
    ELSE IF e.kind = "Removed" THEN m.kind = "Added" /\ m.stats = e.stats
    ELSE m.kind = "Changed" /\ m.before = e.after /\ m.after = e.before

IsMirrorDiff(d, r) ==
    /\ DOMAIN d.changes = DOMAIN r.changes
    /\ \A f \in DOMAIN d.changes : IsMirror(d.changes[f], r.changes[f])
    /\ d.before_total = r.after_total
    /\ d.after_total = r.before_total

\* C27: A.diff(B) and B.diff(A) have the same keys, Added against Removed,
\* Changed with before and after exchanged, and the two totals exchanged
C27_DiffAntisymmetric ==
    pc = "diffed" => IsMirrorDiff(diff_report, Diff(old_report, report))

\* a diff with an added, and one with a changed file, mirrored the other way
C27_Witness ==
    /\ pc = "diffed"
    /\ \E f \in DOMAIN diff_report.changes : diff_report.changes[f].kind = "Added"
    /\ \E f \in DOMAIN diff_report.changes : diff_report.changes[f].kind = "Changed"
    /\ diff_report.before_total # diff_report.after_total
    /\ IsMirrorDiff(diff_report, Diff(old_report, report))

----------------------------------------------------------------------------
(* The rows written and read back                                          *)

\* the row written for file f reads back as f and its record, and column c
\* of the row is the field csv_headers names in column c, written and read
RoundTrips(row, f, stats) ==
    /\ from_csv_row(row) = [kind |-> "Some", filename |-> f, stats |-> stats]
    /\ \A c \in 2..8 :
          /\ row[c] = to_string(stats[csv_headers[c]])
          /\ parse_isize(row[c]).ok
          /\ parse_isize(row[c]).value = from_csv_row(row).stats[csv_headers[c]]

\* C28: from_csv_row of to_csv_row(s, filename) is (filename, s) for every
\* filename and record s, and every field has the same column in
\* csv_headers, to_csv_row and from_csv_row
C28_CsvRowRoundTrip ==
    /\ pc \in {"load", "loaded"} =>
          /\ Len(baseline_file.rows) = Cardinality(DOMAIN report.files)
          /\ \A k \in 1..Len(baseline_file.rows) :
                /\ baseline_file.rows[k][1] \in DOMAIN report.files
                /\ RoundTrips(baseline_file.rows[k], baseline_file.rows[k][1],
                              report.files[baseline_file.rows[k][1]])
    /\ pc = "loaded" => outcome = "diffed" /\ old_report = report

\* two files written and read back, one with counters of two digits, one
\* with a counter below zero
C28_Witness ==
    /\ pc = "loaded"
    /\ DOMAIN report.files = {1, 2}
    /\ report.files[1] = MkStats(10, 0, 0, 0, 0, 0, 12)
    /\ report.files[2] = MkStats(0, 0, 0, 0, 0, 0, 0 - 10)
    /\ baseline_file.rows[1][2] = <<"1", "0">>
    /\ baseline_file.rows[2][8] = <<"-", "1", "0">>
    /\ old_report = report

----------------------------------------------------------------------------
(* The statements of a file                                                *)

\* every statement of a block, at any depth
RECURSIVE StmtsOfExpr(_)
RECURSIVE StmtsOfBlock(_, _)
StmtsOfExpr(e) ==
    CASE e.kind \in {"Unsafe", "Block", "Loop"} -> StmtsOfBlock(e.block, 1)
      [] e.kind = "MethodCall" -> StmtsOfExpr(e.receiver)
      [] OTHER -> 0

StmtsOfBlock(b, k) ==
    IF k > Len(b) THEN 0
    ELSE 1 + (IF b[k].kind = "Expr" THEN StmtsOfExpr(b[k].expr) ELSE 0) + StmtsOfBlock(b, k + 1)

RECURSIVE StmtsOfItems(_, _)
StmtsOfItems(items, k) ==
    IF k > Len(items) THEN 0
    ELSE (IF items[k].kind = "Fn" THEN StmtsOfBlock(items[k].block, 1) ELSE 0)
            + StmtsOfItems(items, k + 1)

\* C29: every CodeStats of the collector has unsafe_statements <=
\* total_statements: total_statements counts every statement of the file
\* once, the direct statements of the unsafe blocks among them, and
\* unsafe_statements counts each of those once
C29_UnsafeStatementsAtMostTotal ==
    pc = "walked" =>
        /\ \A f \in DOMAIN report.files :
              /\ report.files[f].unsafe_statements <= report.files[f].total_statements
              /\ report.files[f].total_statements = StmtsOfItems(crate_files[f].items, 1)
              /\ report.files[f].unsafe_statements =
                    TotalLen(UnsafeBlocksOfItems(crate_files[f].items, 1))
        /\ report.total.unsafe_statements <= report.total.total_statements

\* a function of nested unsafe blocks: the statements of the blocks and the
\* statement that is the outer block
C29_Witness ==
    /\ pc = "walked"
    /\ \E f \in DOMAIN report.files :
          /\ report.files[f].unsafe_statements >= 4
          /\ Len(UnsafeBlocksOfItems(crate_files[f].items, 1)) >= 2
          /\ report.files[f].unsafe_statements < report.files[f].total_statements

====
